---- MODULE Spec2Model ----
(***************************************************************************)
(* VrukshaVeda plant detail page: the shloka audio playback controllers.   *)
(*                                                                         *)
(*  - the chunked Sanskrit sequencer (playShloka / speakChunk / stopAudio, *)
(*    src/src/pages/PlantDetail.tsx 1984-2201), specification Spec and,    *)
(*    with the scheduling fairness of the event loop, LiveSpec;            *)
(*  - the stored-audio revision (playAudio / playTTS / stopAudio,          *)
(*    src/src/pages/PlantDetail.tsx 150-438), specification SpecAudio.     *)
(*                                                                         *)
(* A JavaScript string is a sequence of one-character strings.  Every      *)
(* handler of the page runs to its next suspension point (await, timer,    *)
(* event) in one step: the page is single threaded.                        *)
(***************************************************************************)
EXTENDS Integers, Sequences, FiniteSets, TLC

\* ------------------------------------------------------------------ bounds
\* play requests issued on the chunked sequencer
MaxReq == 2
\* sentences of the longest shloka offered to playShloka
MaxSentences == 3
\* characters of one sentence of those shlokas (before its terminator)
SentenceLen == 100
\* characters of the longest text given to chunkText called alone
MaxTextLen == 5
\* the largest maxLen given to chunkText called alone
MaxChunkBound == 4
\* voices of the longest list given to pickSanskritVoice called alone
MaxVoices == 3

\* submissions of the edit and add forms
MaxSaves == 1

\* files selected in a form
MaxFiles == 2

\* loadPlant calls
MaxLoads == 2

\* ------------------------------------------------------- program constants
\* chunkText(text, maxLen = 180)
DefaultMaxLen == 180
\* getVoicesAsync: setInterval(..., 100)
PollMs == 100
\* getVoicesAsync: setTimeout(..., 3000)
VoicesTimeoutMs == 3000

\* ------------------------------------------------------------------ strings
\* \s of the regular expressions and of String.prototype.trim
Whitespace == {" ", "\n"}
\* [।.!?] of chunkText's split; "|" stands for the danda
Terminators == {"|", ".", "!", "?"}

IsSpace(c) == c \in Whitespace

Min(a, b) == IF a < b THEN a ELSE b

\* index of the first non-space character at or after i (Len(s)+1 if none)
RECURSIVE skipSpaces(_, _)
skipSpaces(s, i) ==
    IF i <= Len(s) /\ IsSpace(s[i]) THEN skipSpaces(s, i + 1) ELSE i

\* index of the last non-space character at or before i (0 if none)
RECURSIVE lastNonSpace(_, _)
lastNonSpace(s, i) ==
    IF i >= 1 /\ IsSpace(s[i]) THEN lastNonSpace(s, i - 1) ELSE i

\* String.prototype.trim
trim(s) == SubSeq(s, skipSpaces(s, 1), lastNonSpace(s, Len(s)))

\* the indexes of s, in order
indexes(s) == [i \in 1..Len(s) |-> i]

\* text.replace(/\s+/g, " "): every maximal run of whitespace becomes one space
collapse(s) ==
    LET keep == SelectSeq(indexes(s),
                          LAMBDA i : ~(IsSpace(s[i]) /\ i > 1 /\ IsSpace(s[i - 1])))
    IN  [k \in 1..Len(keep) |-> IF IsSpace(s[keep[k]]) THEN " " ELSE s[keep[k]]]

\* where the matches of /(?<=[।.!?])\s+/ start: a whitespace character that
\* directly follows a terminator (the match runs to the end of the whitespace)
separators(s) ==
    SelectSeq(indexes(s),
              LAMBDA i : IsSpace(s[i]) /\ i > 1 /\ s[i - 1] \in Terminators)

\* s.split(/(?<=[।.!?])\s+/): the pieces between the matches, empty ones kept
splitSentences(s) ==
    LET sep == separators(s)
    IN  [k \in 1..(Len(sep) + 1) |->
            SubSeq(s,
                   IF k = 1 THEN 1 ELSE skipSpaces(s, sep[k - 1]),
                   IF k = Len(sep) + 1 THEN Len(s) ELSE sep[k] - 1)]

\* hardSplit without the piece left over after the last full one
hardSplitDropsRest(s, maxLen) ==
    [k \in 1..(Len(s) \div maxLen) |->
        SubSeq(s, (k - 1) * maxLen + 1, k * maxLen)]

\* for (i = 0; i < s.length; i += maxLen) chunks.push(s.slice(i, i + maxLen))
hardSplit(s, maxLen) ==
    [k \in 1..((Len(s) + maxLen - 1) \div maxLen) |->
        SubSeq(s, (k - 1) * maxLen + 1, Min(k * maxLen, Len(s)))]

\* chunkStep that never joins a sentence to the buffer
chunkStepNoJoin(st, s, maxLen) ==
    LET flushed == IF st.buf # <<>> THEN Append(st.chunks, st.buf) ELSE st.chunks
    IN  IF Len(s) <= maxLen
        THEN [buf |-> s, chunks |-> flushed]
        ELSE [buf |-> <<>>, chunks |-> flushed \o hardSplit(s, maxLen)]

\* one iteration of chunkText's loop over the sentences
chunkStep(st, s, maxLen) ==
    IF Len(trim(st.buf \o <<" ">> \o s)) <= maxLen
    THEN [st EXCEPT !.buf = (IF st.buf # <<>> THEN st.buf \o <<" ">> ELSE <<>>) \o s]
    ELSE LET flushed == IF st.buf # <<>> THEN Append(st.chunks, st.buf) ELSE st.chunks
         IN  IF Len(s) <= maxLen
             THEN [buf |-> s, chunks |-> flushed]
             ELSE [buf |-> <<>>, chunks |-> flushed \o hardSplit(s, maxLen)]

RECURSIVE chunkLoop(_, _, _, _)
chunkLoop(sentences, k, st, maxLen) ==
    IF k > Len(sentences) THEN st
    ELSE chunkLoop(sentences, k + 1, chunkStep(st, sentences[k], maxLen), maxLen)

\* chunkText pushing the last buffer without testing it
chunkTextPushAlways(text, maxLen) ==
    LET st == chunkLoop(splitSentences(collapse(text)), 1,
                        [buf |-> <<>>, chunks |-> <<>>], maxLen)
    IN  Append(st.chunks, st.buf)

chunkText(text, maxLen) ==
    LET st == chunkLoop(splitSentences(collapse(text)), 1,
                        [buf |-> <<>>, chunks |-> <<>>], maxLen)
    IN  IF st.buf # <<>> THEN Append(st.chunks, st.buf) ELSE st.chunks

\* ------------------------------------------------------------------- voices
\* (s || "").toLowerCase(), on the letters the voice tags are written in
lowerChar(c) ==
    CASE c = "S" -> "s" [] c = "A" -> "a" [] c = "I" -> "i" [] c = "N" -> "n"
      [] c = "H" -> "h" [] OTHER -> c

lower(s) == [i \in 1..Len(s) |-> lowerChar(s[i])]

startsWith(s, p) == Len(s) >= Len(p) /\ SubSeq(s, 1, Len(p)) = p

includes(s, p) ==
    \E i \in 1..(Len(s) - Len(p) + 1) : SubSeq(s, i, i + Len(p) - 1) = p

\* Array.prototype.find: the first element satisfying Test, NoVoice if none
NoVoice == [lang |-> <<>>, name |-> <<"n", "u", "l", "l">>]

findExact(voices) ==
    LET hit == {i \in 1..Len(voices) :
                   lower(voices[i].lang) = <<"s", "a">>
                   \/ lower(voices[i].lang) = <<"s", "a", "-", "i", "n">>}
    IN  IF hit = {} THEN NoVoice
        ELSE voices[CHOOSE i \in hit : \A j \in hit : i <= j]

findPrefix(voices) ==
    LET hit == {i \in 1..Len(voices) : startsWith(lower(voices[i].lang), <<"s", "a">>)}
    IN  IF hit = {} THEN NoVoice
        ELSE voices[CHOOSE i \in hit : \A j \in hit : i <= j]

findName(voices) ==
    LET hit == {i \in 1..Len(voices) :
                   includes(lower(voices[i].name),
                            <<"s", "a", "n", "s", "k", "r", "i", "t">>)}
    IN  IF hit = {} THEN NoVoice
        ELSE voices[CHOOSE i \in hit : \A j \in hit : i <= j]

\* one find() over the three tests together: the first voice passing any
pickFirstMatch(voices) ==
    LET hit == {i \in 1..Len(voices) :
                   \/ startsWith(lower(voices[i].lang), <<"s", "a">>)
                   \/ includes(lower(voices[i].name),
                               <<"s", "a", "n", "s", "k", "r", "i", "t">>)}
    IN  IF hit = {} THEN NoVoice
        ELSE voices[CHOOSE i \in hit : \A j \in hit : i <= j]

pickSanskritVoice(voices) ==
    IF findExact(voices) # NoVoice THEN findExact(voices)
    ELSE IF findPrefix(voices) # NoVoice THEN findPrefix(voices)
    ELSE IF findName(voices) # NoVoice THEN findName(voices)
    ELSE NoVoice

\* the voices a browser may offer
HindiVoice == [lang |-> <<"h", "i", "-", "I", "N">>, name |-> <<"L", "e", "k", "h", "a">>]
SanskritVoice == [lang |-> <<"s", "a", "-", "I", "N">>, name |-> <<"S", "a", "n", "s", "k", "r", "i", "t">>]
PrefixVoice == [lang |-> <<"s", "a", "n">>, name |-> <<"V", "a", "k">>]
NamedVoice == [lang |-> <<"h", "i">>, name |-> <<"S", "a", "n", "s", "k", "r", "i", "t">>]
BareVoice == [lang |-> <<"S", "A">>, name |-> <<"V", "e", "d", "a">>]

\* the non-empty voice lists the engine may load
VoiceLists == {<<HindiVoice>>, <<HindiVoice, SanskritVoice>>}


\* ------------------------------------------------------------- the shlokas
RECURSIVE Shloka(_)
\* k sentences of SentenceLen letters, each closed by a terminator
Shloka(k) ==
    IF k = 0 THEN <<>>
    ELSE (IF k = 1 THEN <<>> ELSE Shloka(k - 1) \o <<" ">>)
         \o [i \in 1..SentenceLen |-> "a"] \o <<".">>

\* plant.shloka as the page may hold it: absent, blank, padded, of every length
AllShlokas ==
    {<<>>, <<" ", "\n">>} \cup {<<"\n">> \o Shloka(k) \o <<" ">> : k \in 1..MaxSentences}

\* the shlokas played when requests interleave: none, the shortest, the longest
Shlokas ==
    {<<>>, <<" ", "\n">>} \cup {<<"\n">> \o Shloka(k) \o <<" ">> : k \in {1, MaxSentences}}

\* chunkText(trimmed).length for the text the play button hands to playShloka
chunkCount == [t \in AllShlokas |-> Len(chunkText(trim(trim(t)), DefaultMaxLen))]

\* ===================================================== the chunked sequencer
VARIABLES
    isPlaying,       \* useState(false)
    canceledRef,     \* canceledRef.current
    resumeNudgeRef,  \* resumeNudgeRef.current is an interval id (not null)
    nudgeLive,       \* resume-nudge intervals the window is running
    voiceRef,        \* voiceRef.current, NoVoice for null
    voices,          \* speechSynthesis.getVoices()
    utter,           \* per call: the utterance speakChunk built, until its 50 ms timer
    queue,           \* the engine's utterance queue, <<request, chunk index, settings>>
    speaking,        \* the head of the queue has fired its start event
    dying,           \* utterances removed by cancel(), completion event not yet fired
    pc,              \* where each playShloka call is suspended
    idx,             \* the loop index i of each playShloka call
    nChunks,         \* chunks.length of each playShloka call
    nReq,            \* playShloka calls made so far
    handedLog,       \* per call: the chunk indexes passed to speak(), in order
    evLog,           \* per call: the completion events its utterances fired
    stoppedReq,      \* per call: a stop request was acknowledged while it ran
    toast            \* per call: the destructive notification it raised

seqVars == <<isPlaying, canceledRef, resumeNudgeRef, nudgeLive, voiceRef, voices,
             utter, queue, speaking, dying, pc, idx, nChunks, nReq, handedLog, evLog,
             stoppedReq, toast>>

\* =============================================== the stored-audio revision
VARIABLES
    plantS,                \* the loaded plant: its shloka and audio_url
    isPlayingS,            \* useState(false)
    audioLoading,          \* useState(false)
    isStoppedManuallyRef,  \* isStoppedManuallyRef.current
    elem,                  \* audioElementRef.current, the media element
    pcS,                   \* where each playAudio call is suspended
    errorHandled,          \* per playAudio call: its errorHandled flag
    timeoutArmed,          \* per playAudio call: its 10 s load timeout is pending
    listeners,             \* per playAudio call: its once-listeners still on the element
    ttsWait,               \* per playAudio call: playTTS calls in their 200 ms delay
    ttsQueue,              \* the engine's utterance queue, <<call, number>>
    ttsSpeaking,           \* the head of ttsQueue has fired its start event
    ttsDying,              \* utterances removed by cancel(), completion event not yet fired
    nPlay,                 \* playAudio calls made so far
    toastS,                \* per playAudio call: the notifications it raised
    fallbacks,             \* per playAudio call: playTTS calls made as a fallback
    ttsCalls,              \* per playAudio call: all its playTTS calls
    spoken,                \* per playAudio call: utterances passed to speak()
    mediaTries,            \* per playAudio call: loads of the stored audio it started
    signals,               \* per playAudio call: the failure signals that reached it
    userStopped            \* the stop button was pressed

audioVars == <<plantS, isPlayingS, audioLoading, isStoppedManuallyRef, elem, pcS,
               errorHandled, timeoutArmed, listeners, ttsWait, ttsQueue,
               ttsSpeaking, ttsDying, nPlay, toastS, fallbacks, ttsCalls, spoken,
               mediaTries, signals, userStopped>>

\* ==================================================== chunkText, called alone
VARIABLES
    ctText,     \* the text argument
    ctMaxLen,   \* the maxLen argument
    ctCalled,   \* chunkText has returned
    ctChunks    \* the array it returned

chunkVars == <<ctText, ctMaxLen, ctCalled, ctChunks>>

\* ================================================ getVoicesAsync, called alone
VARIABLES
    gvPc,      \* the promise: "idle" (not called), "pending", "resolved"
    gvIv,      \* the 100 ms poll interval iv is running
    gvTimer,   \* the 3 s timeout is pending
    gvTicks,   \* polls the interval has run
    gvResult,  \* the list the promise resolved with
    gvHow      \* what resolved it: "immediate", "poll", "timeout"

gvVars == <<gvPc, gvIv, gvTimer, gvTicks, gvResult, gvHow>>

\* ============================================= pickSanskritVoice, called alone
VARIABLES
    pvVoices,  \* the voices argument
    pvCalled,  \* pickSanskritVoice has returned
    pvPicked   \* the voice it returned, NoVoice for null

pickVars == <<pvVoices, pvCalled, pvPicked>>

\* ================================ saving a plant: the edit form, the add form
VARIABLES
    table,         \* the plants table: per id, the record or an absent one
    files,         \* the files in the storage buckets
    nextFile,      \* Date.now() of the next upload, part of its file name
    session,       \* the browser holds a Supabase session
    isAdmin,       \* PlantDetail state
    showEditForm,  \* PlantDetail state
    isSubmitting,  \* PlantDetail state
    plant,         \* PlantDetail state: the record loadPlant fetched
    pcE,           \* the await handleEditSubmit is suspended at, or "idle"
    edForm,        \* the form state handleEditSubmit closed over
    edNew,         \* newImageUrls
    edDel,         \* the urls deleteImagesFromStorage has still to visit
    edAudio,       \* finalAudioUrl
    pcA,           \* the await the Admin page's handleSubmit is suspended at
    adForm,        \* the form state handleSubmit closed over
    adId,          \* plant.id of the record handleSubmit inserted
    adNew,         \* imageUrls
    before,        \* the table and the files when the running or last save began
    outcome,       \* how the last submission ended
    saveToast,     \* the titles of the toasts of the running or last submission
    nSaves,        \* submissions so far
    submitted      \* the handler the last submission called

backendVars == <<table, files, nextFile>>
authVars == <<session, isAdmin, showEditForm>>
editVars == <<isSubmitting, plant, pcE, edForm, edNew, edDel, edAudio>>
adminVars == <<pcA, adForm, adId, adNew>>
ghostVars == <<before, outcome, saveToast, nSaves, submitted>>
saveVars == <<backendVars, authVars, editVars, adminVars, ghostVars>>

\* the state of the helpers and pages modelled after the two controllers
\* ================================== loadPlant, and the Admin page's session
VARIABLES
    lp,     \* PlantDetail state loadPlant writes: loading, error, plant, the form
    lpReq,  \* per loadPlant call: its id, where it is suspended, how it ended
    adm     \* the Admin page: the session, the route, the list, its async calls

pageVars == <<lp, lpReq, adm>>

otherVars == <<chunkVars, gvVars, pickVars, saveVars, pageVars>>

vars == <<seqVars, audioVars, otherVars>>

Requests == 1..MaxReq

Range(q) == {q[i] : i \in 1..Len(q)}

Active(r) == pc[r] \notin {"none", "done"}

InitSeq ==
    /\ isPlaying = FALSE
    /\ canceledRef = FALSE
    /\ resumeNudgeRef = FALSE
    /\ nudgeLive = 0
    /\ voiceRef = NoVoice
    /\ voices = <<>>
    /\ utter = [r \in Requests |-> <<>>]
    /\ queue = <<>>
    /\ speaking = FALSE
    /\ dying = {}
    /\ pc = [r \in Requests |-> "none"]
    /\ idx = [r \in Requests |-> 0]
    /\ nChunks = [r \in Requests |-> 0]
    /\ nReq = 0
    /\ handedLog = [r \in Requests |-> <<>>]
    /\ evLog = [r \in Requests |-> <<>>]
    /\ stoppedReq = [r \in Requests |-> FALSE]
    /\ toast = [r \in Requests |-> "none"]

\* clearResumeNudge: the interval the ref names is cleared, the ref set to null
clearResumeNudge ==
    /\ nudgeLive' = (IF resumeNudgeRef THEN nudgeLive - 1 ELSE nudgeLive)
    /\ resumeNudgeRef' = FALSE

\* startResumeNudge: clearResumeNudge, then a new interval kept in the ref
startResumeNudge ==
    /\ nudgeLive' = (IF resumeNudgeRef THEN nudgeLive - 1 ELSE nudgeLive) + 1
    /\ resumeNudgeRef' = TRUE

\* speechSynthesis.cancel(): the queue is emptied; the engine still owes each
\* removed utterance its completion event
engineCancel ==
    /\ queue' = <<>>
    /\ speaking' = FALSE
    /\ dying' = dying \cup Range(queue)

\* utter.lang = "sa-IN"
SaIN == <<"s", "a", "-", "I", "N">>

\* utterOf giving the utterance the first voice of the list when no Sanskrit
\* voice was found
utterAnyVoice(r, i, v) ==
    <<r, i, [lang |-> SaIN,
             voice |-> IF v = NoVoice /\ voices # <<>> THEN voices[1] ELSE v]>>

\* the utterance speakChunk builds for chunk i of call r with v in voiceRef:
\* the language tag always, the voice only if there is one
utterOf(r, i, v) == <<r, i, [lang |-> SaIN, voice |-> v]>>

\* stopAudio but for its setIsPlaying(false) and the canceled flag, which
\* playShloka overwrites in the same turn
stopEngine ==
    /\ clearResumeNudge
    /\ engineCancel

\* loopHead without the setIsPlaying(false) that follows the loop
loopHeadStaysPlaying(r, i, n, v, canc, playing) ==
    /\ idx' = [idx EXCEPT ![r] = i]
    /\ isPlaying' = playing
    /\ IF i < n /\ ~canc
       THEN IF v = NoVoice /\ voices = <<>>
            THEN pc' = [pc EXCEPT ![r] = "voicesN"] /\ voiceRef' = v /\ utter' = utter
            ELSE /\ pc' = [pc EXCEPT ![r] = "timer"]
                 /\ voiceRef' = (IF v = NoVoice THEN pickSanskritVoice(voices) ELSE v)
                 /\ utter' = [utter EXCEPT ![r] = utterOf(r, i, voiceRef')]
       ELSE /\ pc' = [pc EXCEPT ![r] = "done"]
            /\ voiceRef' = v
            /\ utter' = utter

\* the head of playShloka's for loop at index i of n, with v in voiceRef, the
\* canceled flag canc and isPlaying playing; runs speakChunk to its first
\* suspension, or leaves the loop
loopHead(r, i, n, v, canc, playing) ==
    /\ idx' = [idx EXCEPT ![r] = i]
    /\ IF i < n /\ ~canc
       THEN /\ isPlaying' = playing
            /\ IF v = NoVoice /\ voices = <<>>
               THEN pc' = [pc EXCEPT ![r] = "voicesN"] /\ voiceRef' = v /\ utter' = utter
               ELSE /\ pc' = [pc EXCEPT ![r] = "timer"]
                    /\ voiceRef' = (IF v = NoVoice THEN pickSanskritVoice(voices) ELSE v)
                    /\ utter' = [utter EXCEPT ![r] = utterOf(r, i, voiceRef')]
       ELSE /\ pc' = [pc EXCEPT ![r] = "done"]
            /\ voiceRef' = v
            /\ utter' = utter
            /\ isPlaying' = (IF canc THEN playing ELSE FALSE)

\* playShloka without its test of the trimmed text
PlayUnchecked(t) ==
    /\ ~isPlaying
    /\ nReq < MaxReq
    /\ LET r == nReq + 1
       IN  /\ nReq' = r
           /\ stopEngine
           /\ canceledRef' = FALSE
           /\ nChunks' = [nChunks EXCEPT ![r] = chunkCount[t]]
           /\ toast' = toast
           /\ IF voices = <<>>
              THEN /\ pc' = [pc EXCEPT ![r] = "voices0"]
                   /\ isPlaying' = TRUE
                   /\ UNCHANGED <<voiceRef, utter, idx>>
              ELSE loopHead(r, 0, chunkCount[t], pickSanskritVoice(voices),
                            FALSE, TRUE)
    /\ UNCHANGED <<voices, handedLog, evLog, stoppedReq, audioVars, otherVars>>

\* the play button: playShloka((plant.shloka || "").trim())
Play(t) ==
    /\ ~isPlaying
    /\ nReq < MaxReq
    /\ LET r == nReq + 1
           trimmed == trim(trim(t))
       IN  /\ nReq' = r
           /\ stopEngine
           /\ IF trimmed = <<>>
              THEN /\ toast' = [toast EXCEPT ![r] = "notext"]
                   /\ pc' = [pc EXCEPT ![r] = "done"]
                   /\ canceledRef' = TRUE
                   /\ isPlaying' = FALSE
                   /\ UNCHANGED <<voiceRef, utter, idx, nChunks>>
              ELSE /\ canceledRef' = FALSE
                   /\ nChunks' = [nChunks EXCEPT ![r] = chunkCount[t]]
                   /\ toast' = toast
                   /\ IF voices = <<>>
                      THEN /\ pc' = [pc EXCEPT ![r] = "voices0"]
                           /\ isPlaying' = TRUE
                           /\ UNCHANGED <<voiceRef, utter, idx>>
                      ELSE loopHead(r, 0, chunkCount[t], pickSanskritVoice(voices),
                                    FALSE, TRUE)
    /\ UNCHANGED <<voices, handedLog, evLog, stoppedReq, audioVars, otherVars>>

\* stopAudio
stopAudio ==
    /\ canceledRef' = TRUE
    /\ stopEngine
    /\ isPlaying' = FALSE
    /\ stoppedReq' = [r \in Requests |-> stoppedReq[r] \/ Active(r)]
    /\ UNCHANGED <<voiceRef, voices, utter, pc, idx, nChunks, nReq, handedLog, evLog, toast,
                   audioVars, otherVars>>

\* the stop button, rendered while isPlaying
Stop ==
    /\ isPlaying
    /\ stopAudio

\* the cleanup of the [id] effect: the route id changed
EffectCleanup ==
    /\ nReq > 0
    /\ stopAudio

\* the browser finishes loading its voice list
LoadVoices ==
    /\ voices = <<>>
    /\ voices' \in VoiceLists
    /\ UNCHANGED <<isPlaying, canceledRef, resumeNudgeRef, nudgeLive, voiceRef,
                   utter, queue, speaking, dying, pc, idx, nChunks, nReq, handedLog,
                   evLog, stoppedReq, toast, audioVars, otherVars>>

\* getVoicesAsync resolves for the call suspended on it
voicesResolved(r) ==
    /\ IF pc[r] = "voices0"
       THEN loopHead(r, 0, nChunks[r], pickSanskritVoice(voices), canceledRef, isPlaying)
       ELSE /\ voiceRef' = pickSanskritVoice(voices)
            /\ utter' = [utter EXCEPT ![r] = utterOf(r, idx[r], voiceRef')]
            /\ pc' = [pc EXCEPT ![r] = "timer"]
            /\ UNCHANGED <<idx, isPlaying>>
    /\ UNCHANGED <<canceledRef, resumeNudgeRef, nudgeLive, voices, queue, speaking,
                   dying, nChunks, nReq, handedLog, evLog, stoppedReq, toast,
                   audioVars, otherVars>>

\* a 100 ms poll of getVoicesAsync finds the list non-empty
VoicesPoll(r) ==
    /\ pc[r] \in {"voices0", "voicesN"}
    /\ voices # <<>>
    /\ voicesResolved(r)

\* the 3 s timeout of getVoicesAsync resolves with whatever the engine reports
VoicesTimeout(r) ==
    /\ pc[r] \in {"voices0", "voicesN"}
    /\ voicesResolved(r)

\* SpeakTimer with the promise resolved by speak() itself instead of by the
\* utterance's end event
SpeakTimerNoAwait(r) ==
    /\ pc[r] = "timer"
    /\ queue' = Append(queue, utter[r])
    /\ handedLog' = [handedLog EXCEPT ![r] = Append(@, idx[r])]
    /\ loopHead(r, idx[r] + 1, nChunks[r], voiceRef, canceledRef, isPlaying)
    /\ UNCHANGED <<canceledRef, resumeNudgeRef, nudgeLive, voices, speaking, dying,
                   nChunks, nReq, evLog, stoppedReq, toast, audioVars, otherVars>>

\* the 50 ms timer of speakChunk: speechSynthesis.speak(utter)
SpeakTimer(r) ==
    /\ pc[r] = "timer"
    /\ queue' = Append(queue, utter[r])
    /\ utter' = [utter EXCEPT ![r] = <<>>]
    /\ handedLog' = [handedLog EXCEPT ![r] = Append(@, idx[r])]
    /\ pc' = [pc EXCEPT ![r] = "wait"]
    /\ UNCHANGED <<isPlaying, canceledRef, resumeNudgeRef, nudgeLive, voiceRef,
                   voices, speaking, dying, idx, nChunks, nReq, evLog, stoppedReq,
                   toast, audioVars, otherVars>>

\* the engine starts the head of its queue: utter.onstart
EngineStart ==
    /\ queue # <<>>
    /\ ~speaking
    /\ speaking' = TRUE
    /\ startResumeNudge
    /\ UNCHANGED <<isPlaying, canceledRef, voiceRef, voices, utter, queue, dying, pc, idx,
                   nChunks, nReq, handedLog, evLog, stoppedReq, toast, audioVars, otherVars>>

\* the engine is done with utterance u: the spoken head, or one cancel() removed
engineDrops(u) ==
    \/ /\ queue # <<>> /\ speaking /\ Head(queue) = u
       /\ queue' = Tail(queue)
       /\ speaking' = FALSE
       /\ dying' = dying
    \/ /\ u \in dying
       /\ dying' = dying \ {u}
       /\ UNCHANGED <<queue, speaking>>

\* the promise of the speakChunk call that created utterance u is still
\* pending: playShloka call u[1] awaits it
awaited(u) == pc[u[1]] = "wait" /\ idx[u[1]] = u[2]

\* onend without its clearResumeNudge()
onendKeepsNudge(u) ==
    /\ UNCHANGED <<nudgeLive, resumeNudgeRef>>
    /\ evLog' = [evLog EXCEPT ![u[1]] = Append(@, "end")]
    /\ IF awaited(u)
       THEN loopHead(u[1], u[2] + 1, nChunks[u[1]], voiceRef, canceledRef, isPlaying)
       ELSE UNCHANGED <<pc, idx, voiceRef, utter, isPlaying>>
    /\ UNCHANGED toast

\* utter.onend: clearResumeNudge(); resolve(); playShloka goes on with i + 1
onend(u) ==
    /\ clearResumeNudge
    /\ evLog' = [evLog EXCEPT ![u[1]] = Append(@, "end")]
    /\ IF awaited(u)
       THEN loopHead(u[1], u[2] + 1, nChunks[u[1]], voiceRef, canceledRef, isPlaying)
       ELSE UNCHANGED <<pc, idx, voiceRef, utter, isPlaying>>
    /\ UNCHANGED toast

\* onerror resolving the promise instead of rejecting it: the loop goes on
onerrorResolves(u) ==
    /\ clearResumeNudge
    /\ evLog' = [evLog EXCEPT ![u[1]] = Append(@, "error")]
    /\ IF awaited(u)
       THEN loopHead(u[1], u[2] + 1, nChunks[u[1]], voiceRef, canceledRef, isPlaying)
       ELSE UNCHANGED <<pc, idx, voiceRef, utter, isPlaying>>
    /\ UNCHANGED toast

\* utter.onerror: clearResumeNudge(); reject(); playShloka's catch, then
\* setIsPlaying(false) and the "Sanskrit TTS unavailable" notification
onerror(u) ==
    /\ clearResumeNudge
    /\ evLog' = [evLog EXCEPT ![u[1]] = Append(@, "error")]
    /\ IF awaited(u)
       THEN /\ pc' = [pc EXCEPT ![u[1]] = "done"]
            /\ isPlaying' = FALSE
            /\ toast' = [toast EXCEPT ![u[1]] = "unavailable"]
       ELSE UNCHANGED <<pc, isPlaying, toast>>
    /\ UNCHANGED <<idx, voiceRef, utter>>

\* the engine fires the end event of an utterance
EngineEnd(u) ==
    /\ engineDrops(u)
    /\ onend(u)
    /\ UNCHANGED <<canceledRef, voices, nChunks, nReq, handedLog, stoppedReq,
                   audioVars, otherVars>>

\* the engine fires the error event of an utterance
EngineError(u) ==
    /\ engineDrops(u)
    /\ onerror(u)
    /\ UNCHANGED <<canceledRef, voices, nChunks, nReq, handedLog, stoppedReq,
                   audioVars, otherVars>>

\* the utterances the engine holds
Utterances == Range(queue) \cup dying

NextSeq ==
    \/ \E t \in Shlokas : Play(t)
    \/ Stop
    \/ EffectCleanup
    \/ LoadVoices
    \/ \E r \in Requests : VoicesPoll(r)
    \/ \E r \in Requests : VoicesTimeout(r)
    \/ \E r \in Requests : SpeakTimer(r)
    \/ EngineStart
    \/ \E u \in Utterances : EngineEnd(u)
    \/ \E u \in Utterances : EngineError(u)

\* ================================== the stored-audio revision: playAudio
\* bound: playAudio calls
MaxPlay == 2

Plays == 1..MaxPlay

\* plant.audio_url: null or empty, blank, a storage URL
AudioUrls == {<<>>, <<" ">>, <<"u">>}

\* plant.shloka of the plants this page is opened on
ShlokasS == {<<>>, <<" ", "\n">>, <<" ", "a", ".">>}

Plants == [shloka : ShlokasS, audio_url : AudioUrls]

\* a new Audio(): no source, nothing loading, no event task queued
NewAudio == [load |-> "empty", playing |-> FALSE, pending |-> <<>>]

\* the state of the page as one record, for the handlers that run several
\* callbacks in one turn of the event loop
Cur ==
    [isPlayingS |-> isPlayingS, audioLoading |-> audioLoading,
     isStoppedManuallyRef |-> isStoppedManuallyRef, elem |-> elem, pcS |-> pcS,
     errorHandled |-> errorHandled, timeoutArmed |-> timeoutArmed,
     listeners |-> listeners, ttsWait |-> ttsWait, ttsQueue |-> ttsQueue,
     ttsSpeaking |-> ttsSpeaking, ttsDying |-> ttsDying, toastS |-> toastS,
     fallbacks |-> fallbacks, ttsCalls |-> ttsCalls, spoken |-> spoken,
     mediaTries |-> mediaTries, signals |-> signals]

Becomes(s) ==
    /\ isPlayingS' = s.isPlayingS
    /\ audioLoading' = s.audioLoading
    /\ isStoppedManuallyRef' = s.isStoppedManuallyRef
    /\ elem' = s.elem
    /\ pcS' = s.pcS
    /\ errorHandled' = s.errorHandled
    /\ timeoutArmed' = s.timeoutArmed
    /\ listeners' = s.listeners
    /\ ttsWait' = s.ttsWait
    /\ ttsQueue' = s.ttsQueue
    /\ ttsSpeaking' = s.ttsSpeaking
    /\ ttsDying' = s.ttsDying
    /\ toastS' = s.toastS
    /\ fallbacks' = s.fallbacks
    /\ ttsCalls' = s.ttsCalls
    /\ spoken' = s.spoken
    /\ mediaTries' = s.mediaTries
    /\ signals' = s.signals

AudioAt(p) ==
    /\ plantS = p
    /\ isPlayingS = FALSE
    /\ audioLoading = FALSE
    /\ isStoppedManuallyRef = FALSE
    /\ elem = NewAudio
    /\ pcS = [q \in Plays |-> "none"]
    /\ errorHandled = [q \in Plays |-> FALSE]
    /\ timeoutArmed = [q \in Plays |-> FALSE]
    /\ listeners = [q \in Plays |-> {}]
    /\ ttsWait = [q \in Plays |-> 0]
    /\ ttsQueue = <<>>
    /\ ttsSpeaking = FALSE
    /\ ttsDying = {}
    /\ nPlay = 0
    /\ toastS = [q \in Plays |-> {}]
    /\ fallbacks = [q \in Plays |-> 0]
    /\ ttsCalls = [q \in Plays |-> 0]
    /\ spoken = [q \in Plays |-> 0]
    /\ mediaTries = [q \in Plays |-> 0]
    /\ signals = [q \in Plays |-> {}]
    /\ userStopped = FALSE

InitAudio == \E p \in Plants : AudioAt(p)

\* toast({title: ...}) raised by playAudio call q
toastOf(s, q, title) == [s EXCEPT !.toastS[q] = @ \cup {title}]

\* speechSynthesis.cancel()
cancelSpeech(s) ==
    [s EXCEPT !.ttsQueue = <<>>, !.ttsSpeaking = FALSE,
              !.ttsDying = @ \cup Range(s.ttsQueue)]

\* element.load() after src was set: the element's queued event tasks are
\* dropped; abort is fired if a resource was selected, then loadstart, then
\* error when the source is empty
mediaLoad(e, hasSrc) ==
    [load |-> IF hasSrc THEN "loading" ELSE "nosrc",
     playing |-> FALSE,
     pending |-> (IF e.load \in {"loading", "ready"} THEN <<"abort">> ELSE <<>>)
                 \o <<"loadstart">>
                 \o (IF hasSrc THEN <<>> ELSE <<"error">>)]

\* stopAudio of the stored-audio revision
stopAudioS(s) ==
    LET s1 == [s EXCEPT !.isStoppedManuallyRef = TRUE,
                        !.elem = mediaLoad(s.elem, FALSE)]
    IN  [cancelSpeech(s1) EXCEPT !.isPlayingS = FALSE, !.audioLoading = FALSE]

\* playTTS up to its 200 ms delay: speechSynthesis.cancel()
playTTS(s, q) ==
    [cancelSpeech(s) EXCEPT !.ttsWait[q] = @ + 1, !.ttsCalls[q] = @ + 1]

\* handleError without its early returns: every failure signal falls back
handleErrorAlways(s, q) ==
    playTTS([toastOf(s, q, "Audio Error") EXCEPT
                 !.errorHandled[q] = TRUE, !.audioLoading = FALSE,
                 !.isPlayingS = FALSE, !.fallbacks[q] = @ + 1], q)

\* handleError without its tests of isStoppedManuallyRef
handleErrorNoStopTest(s, q) ==
    IF s.errorHandled[q] THEN s
    ELSE playTTS([toastOf(s, q, "Audio Error") EXCEPT
                      !.errorHandled[q] = TRUE, !.audioLoading = FALSE,
                      !.isPlayingS = FALSE, !.fallbacks[q] = @ + 1], q)

\* handleError of playAudio call q
handleError(s, q) ==
    IF s.isStoppedManuallyRef THEN s
    ELSE IF s.errorHandled[q] THEN s
    ELSE LET s1 == [s EXCEPT !.errorHandled[q] = TRUE, !.audioLoading = FALSE,
                             !.isPlayingS = FALSE]
         IN  IF s1.isStoppedManuallyRef THEN s1
             ELSE playTTS([toastOf(s1, q, "Audio Error") EXCEPT
                               !.fallbacks[q] = @ + 1], q)

\* the catch (loadError) of playAudio call q, then the end of the call
catchLoad(s, q) ==
    LET s1 == IF ~s.isStoppedManuallyRef /\ ~s.errorHandled[q]
              THEN handleError(s, q) ELSE s
    IN  [s1 EXCEPT !.pcS[q] = "done"]

\* reject(...) of the load promise of call q: nothing if it is settled
rejectLoad(s, q) == IF s.pcS[q] = "loading" THEN catchLoad(s, q) ELSE s

\* resolve() of the load promise of call q, then audioElementRef.current.play()
resolveLoad(s, q) ==
    IF s.pcS[q] = "loading" THEN [s EXCEPT !.pcS[q] = "playPromise"] ELSE s

\* the error and abort listener added by call q: errorHandler
errorHandler(s, q, ev) ==
    IF ev \in s.listeners[q]
    THEN handleError([s EXCEPT !.listeners[q] = @ \ {ev},
                               !.signals[q] = @ \cup {IF ev = "errorHandler:error"
                                                      THEN "error" ELSE "abort"}], q)
    ELSE s

\* the error listener of the load promise of call q: onError
onError(s, q) ==
    IF "onError" \in s.listeners[q]
    THEN LET s1 == [s EXCEPT !.listeners[q] = @ \ {"onError"},
                             !.timeoutArmed[q] = FALSE,
                             !.signals[q] = @ \cup {"error"}]
             s2 == IF ~s1.isStoppedManuallyRef /\ ~s1.errorHandled[q]
                   THEN handleError(s1, q) ELSE s1
         IN  rejectLoad(s2, q)
    ELSE s

\* the canplay / canplaythrough listener of the load promise of call q
onCanPlay(s, q) ==
    IF "onCanPlay" \in s.listeners[q]
    THEN resolveLoad([s EXCEPT !.listeners[q] = @ \ {"onCanPlay"},
                               !.timeoutArmed[q] = FALSE], q)
    ELSE s

\* the element fires error: the listener added at mount, then the listeners
\* of the calls in the order they were added
RECURSIVE errorListeners(_, _)
errorListeners(s, q) ==
    IF q > MaxPlay THEN s
    ELSE errorListeners(onError(errorHandler(s, q, "errorHandler:error"), q), q + 1)

dispatchError(s) ==
    errorListeners([s EXCEPT !.isPlayingS = FALSE, !.audioLoading = FALSE], 1)

RECURSIVE abortListeners(_, _)
abortListeners(s, q) ==
    IF q > MaxPlay THEN s
    ELSE abortListeners(errorHandler(s, q, "errorHandler:abort"), q + 1)

dispatchAbort(s) == abortListeners(s, 1)

RECURSIVE canPlayListeners(_, _)
canPlayListeners(s, q) ==
    IF q > MaxPlay THEN s
    ELSE canPlayListeners(onCanPlay(s, q), q + 1)

dispatchCanPlay(s) == canPlayListeners([s EXCEPT !.audioLoading = FALSE], 1)

\* the play button: playAudio up to its 100 ms delay
PlayAudio ==
    /\ ~isPlayingS /\ ~audioLoading
    /\ nPlay < MaxPlay
    /\ nPlay' = nPlay + 1
    /\ LET q == nPlay + 1
       IN  IF trim(plantS.shloka) = <<>>
           THEN Becomes([toastOf(Cur, q, "No text") EXCEPT !.pcS[q] = "done"])
           ELSE Becomes([stopAudioS([Cur EXCEPT !.isStoppedManuallyRef = FALSE])
                            EXCEPT !.pcS[q] = "settle"])
    /\ UNCHANGED <<plantS, userStopped, seqVars, otherVars>>

\* Settle testing plant.audio_url without its trim(): a blank URL is loaded
SettleNoTrim(q) ==
    /\ pcS[q] = "settle"
    /\ \A p \in Plays : p < q => pcS[p] # "settle"
    /\ IF plantS.audio_url # <<>>
       THEN Becomes([Cur EXCEPT
                !.listeners[q] = {"errorHandler:error", "errorHandler:abort",
                                  "onCanPlay", "onError"},
                !.elem = mediaLoad(elem, TRUE),
                !.audioLoading = TRUE,
                !.timeoutArmed[q] = TRUE,
                !.mediaTries[q] = @ + 1,
                !.pcS[q] = "loading"])
       ELSE Becomes([playTTS(Cur, q) EXCEPT !.pcS[q] = "done"])
    /\ UNCHANGED <<plantS, nPlay, userStopped, seqVars, otherVars>>

\* playAudio after the 100 ms delay: the stored audio is loaded, or playTTS
\* is called when there is none
Settle(q) ==
    /\ pcS[q] = "settle"
    /\ \A p \in Plays : p < q => pcS[p] # "settle"
    /\ IF plantS.audio_url # <<>> /\ trim(plantS.audio_url) # <<>>
       THEN Becomes([Cur EXCEPT
                !.listeners[q] = {"errorHandler:error", "errorHandler:abort",
                                  "onCanPlay", "onError"},
                !.elem = mediaLoad(elem, TRUE),
                !.audioLoading = TRUE,
                !.timeoutArmed[q] = TRUE,
                !.mediaTries[q] = @ + 1,
                !.pcS[q] = "loading"])
       ELSE Becomes([playTTS(Cur, q) EXCEPT !.pcS[q] = "done"])
    /\ UNCHANGED <<plantS, nPlay, userStopped, seqVars, otherVars>>

\* the stop button, rendered while isPlaying and disabled while audioLoading
StopS ==
    /\ isPlayingS /\ ~audioLoading
    /\ Becomes(stopAudioS(Cur))
    /\ userStopped' = TRUE
    /\ UNCHANGED <<plantS, nPlay, seqVars, otherVars>>

\* the element runs the event task at the head of its queue
MediaTask ==
    /\ elem.pending # <<>>
    /\ LET s == [Cur EXCEPT !.elem.pending = Tail(@)]
           ev == Head(elem.pending)
       IN  Becomes(CASE ev = "abort" -> dispatchAbort(s)
                     [] ev = "loadstart" -> [s EXCEPT !.audioLoading = TRUE]
                     [] OTHER -> dispatchError(s))
    /\ UNCHANGED <<plantS, nPlay, userStopped, seqVars, otherVars>>

\* the stored audio has loaded enough to play: canplay
MediaCanPlay ==
    /\ elem.load = "loading" /\ elem.pending = <<>>
    /\ Becomes(dispatchCanPlay([Cur EXCEPT !.elem.load = "ready"]))
    /\ UNCHANGED <<plantS, nPlay, userStopped, seqVars, otherVars>>

\* the stored audio cannot be fetched or decoded: error
MediaFail ==
    /\ elem.load = "loading" /\ elem.pending = <<>>
    /\ Becomes(dispatchError([Cur EXCEPT !.elem.load = "failed"]))
    /\ UNCHANGED <<plantS, nPlay, userStopped, seqVars, otherVars>>

\* the 10 s load timeout of call q
LoadTimeout(q) ==
    /\ timeoutArmed[q]
    /\ LET s1 == [Cur EXCEPT !.timeoutArmed[q] = FALSE,
                             !.signals[q] = @ \cup {"timeout"}]
           s2 == IF ~s1.errorHandled[q] THEN handleError(s1, q) ELSE s1
       IN  Becomes(rejectLoad(s2, q))
    /\ UNCHANGED <<plantS, nPlay, userStopped, seqVars, otherVars>>

\* play() of call q is fulfilled: the play listener, then the "Playing" toast
PlayResolved(q) ==
    /\ pcS[q] = "playPromise"
    /\ elem.load = "ready"
    /\ Becomes([toastOf(Cur, q, "Playing") EXCEPT
                   !.elem.playing = TRUE, !.isPlayingS = TRUE,
                   !.audioLoading = FALSE, !.pcS[q] = "done"])
    /\ UNCHANGED <<plantS, nPlay, userStopped, seqVars, otherVars>>

\* play() of call q is rejected
PlayRejected(q) ==
    /\ pcS[q] = "playPromise"
    /\ Becomes(catchLoad([Cur EXCEPT !.signals[q] = @ \cup {"playRejected"}], q))
    /\ UNCHANGED <<plantS, nPlay, userStopped, seqVars, otherVars>>

\* the stored audio has played to its end: ended
MediaEnded ==
    /\ elem.playing
    /\ Becomes([Cur EXCEPT !.elem.playing = FALSE, !.isPlayingS = FALSE,
                           !.audioLoading = FALSE])
    /\ UNCHANGED <<plantS, nPlay, userStopped, seqVars, otherVars>>

\* playTTS of call q after its 200 ms delay: speechSynthesis.speak(utterance)
TtsDelay(q) ==
    /\ ttsWait[q] > 0
    /\ Becomes([Cur EXCEPT !.ttsWait[q] = @ - 1, !.spoken[q] = @ + 1,
                           !.ttsQueue = Append(@, <<q, spoken[q] + 1>>)])
    /\ UNCHANGED <<plantS, nPlay, userStopped, seqVars, otherVars>>

\* utterance.onstart
TtsStart ==
    /\ ttsQueue # <<>> /\ ~ttsSpeaking
    /\ Becomes([toastOf(Cur, Head(ttsQueue)[1], "Playing TTS") EXCEPT
                   !.ttsSpeaking = TRUE, !.isPlayingS = TRUE])
    /\ UNCHANGED <<plantS, nPlay, userStopped, seqVars, otherVars>>

\* the engine is done with utterance u of the stored-audio revision
ttsDrops(s, u) ==
    IF u \in s.ttsDying THEN [s EXCEPT !.ttsDying = @ \ {u}]
    ELSE [s EXCEPT !.ttsQueue = Tail(@), !.ttsSpeaking = FALSE]

TtsDone(u) ==
    \/ u \in ttsDying
    \/ ttsQueue # <<>> /\ ttsSpeaking /\ Head(ttsQueue) = u

\* utterance.onend
TtsEnd(u) ==
    /\ TtsDone(u)
    /\ Becomes([ttsDrops(Cur, u) EXCEPT !.isPlayingS = FALSE])
    /\ UNCHANGED <<plantS, nPlay, userStopped, seqVars, otherVars>>

\* utterance.onerror
TtsError(u) ==
    /\ TtsDone(u)
    /\ Becomes([toastOf(ttsDrops(Cur, u), u[1], "Error") EXCEPT !.isPlayingS = FALSE])
    /\ UNCHANGED <<plantS, nPlay, userStopped, seqVars, otherVars>>

UtterancesS == Range(ttsQueue) \cup ttsDying

NextAudio ==
    \/ PlayAudio
    \/ \E q \in Plays : Settle(q)
    \/ StopS
    \/ MediaTask
    \/ MediaCanPlay
    \/ MediaFail
    \/ \E q \in Plays : LoadTimeout(q)
    \/ \E q \in Plays : PlayResolved(q)
    \/ \E q \in Plays : PlayRejected(q)
    \/ MediaEnded
    \/ \E q \in Plays : TtsDelay(q)
    \/ TtsStart
    \/ \E u \in UtterancesS : TtsEnd(u)
    \/ \E u \in UtterancesS : TtsError(u)

\* ==================================================== chunkText, called alone
\* the characters of the texts: letters, a terminator, whitespace
Alphabet == {"a", "b", ".", " ", "\n"}

\* every text of at most MaxTextLen characters
Texts == UNION {[1..n -> Alphabet] : n \in 0..MaxTextLen}

\* chunkText has not been called
ChunkIdle ==
    /\ ctText = <<>>
    /\ ctMaxLen = DefaultMaxLen
    /\ ctCalled = FALSE
    /\ ctChunks = <<>>

\* const chunks = chunkText(text, maxLen)
CallChunkText ==
    /\ ~ctCalled
    /\ ctCalled' = TRUE
    /\ ctChunks' = chunkText(ctText, ctMaxLen)
    /\ UNCHANGED <<ctText, ctMaxLen, seqVars, audioVars, gvVars, pickVars, saveVars, pageVars>>

\* ================================================ getVoicesAsync, called alone
\* getVoicesAsync has not been called
VoicesIdle ==
    /\ gvPc = "idle"
    /\ gvIv = FALSE
    /\ gvTimer = FALSE
    /\ gvTicks = 0
    /\ gvResult = <<>>
    /\ gvHow = "none"

\* resolve(list): settles the promise if it is pending, else does nothing
gvResolve(list, how) ==
    IF gvPc = "pending"
    THEN gvPc' = "resolved" /\ gvResult' = list /\ gvHow' = how
    ELSE UNCHANGED <<gvPc, gvResult, gvHow>>

\* getVoicesAsync(): the executor of the promise
GetVoices ==
    /\ gvPc = "idle"
    /\ IF voices # <<>>
       THEN /\ gvPc' = "resolved" /\ gvResult' = voices /\ gvHow' = "immediate"
            /\ UNCHANGED <<gvIv, gvTimer>>
       ELSE /\ gvPc' = "pending"
            /\ gvIv' = TRUE
            /\ gvTimer' = TRUE
            /\ UNCHANGED <<gvResult, gvHow>>
    /\ UNCHANGED <<gvTicks, seqVars, audioVars, chunkVars, pickVars, saveVars, pageVars>>

\* GvPoll resolving without clearInterval(iv)
GvPollKeepsInterval ==
    /\ gvIv
    /\ (gvTicks + 1) * PollMs <= VoicesTimeoutMs
    /\ gvTicks' = gvTicks + 1
    /\ IF voices # <<>>
       THEN gvIv' = gvIv /\ gvResolve(voices, "poll")
       ELSE UNCHANGED <<gvIv, gvPc, gvResult, gvHow>>
    /\ UNCHANGED <<gvTimer, seqVars, audioVars, chunkVars, pickVars, saveVars, pageVars>>

\* the callback of the interval, every 100 ms while iv runs; the poll due at
\* 3000 ms may run before the timeout
GvPoll ==
    /\ gvIv
    /\ (gvTicks + 1) * PollMs <= VoicesTimeoutMs
    /\ gvTicks' = gvTicks + 1
    /\ IF voices # <<>>
       THEN gvIv' = FALSE /\ gvResolve(voices, "poll")
       ELSE UNCHANGED <<gvIv, gvPc, gvResult, gvHow>>
    /\ UNCHANGED <<gvTimer, seqVars, audioVars, chunkVars, pickVars, saveVars, pageVars>>

\* the callback of the 3 s timeout: due once every poll before 3000 ms has run
GvTimeout ==
    /\ gvTimer
    /\ gvIv => (gvTicks + 1) * PollMs >= VoicesTimeoutMs
    /\ gvTimer' = FALSE
    /\ gvIv' = FALSE
    /\ gvResolve(voices, "timeout")
    /\ UNCHANGED <<gvTicks, seqVars, audioVars, chunkVars, pickVars, saveVars, pageVars>>

\* ============================================= pickSanskritVoice, called alone
\* the voices the lists are made of
VoicePool == {HindiVoice, SanskritVoice, PrefixVoice, NamedVoice, BareVoice}

\* every list of at most MaxVoices voices
AllVoiceLists == UNION {[1..n -> VoicePool] : n \in 0..MaxVoices}

\* pickSanskritVoice has not been called
PickIdle ==
    /\ pvVoices = <<>>
    /\ pvCalled = FALSE
    /\ pvPicked = NoVoice

\* const v = pickSanskritVoice(voices)
CallPickVoice ==
    /\ ~pvCalled
    /\ pvCalled' = TRUE
    /\ pvPicked' = pickSanskritVoice(pvVoices)
    /\ UNCHANGED <<pvVoices, seqVars, audioVars, chunkVars, gvVars, saveVars, pageVars>>

\* ================================ saving a plant: the edit form, the add form
\* the id in the route of the detail page
PageId == 1

\* the ids the table can hold: the page's plant and one per added plant
PlantIds == 1..(1 + MaxSaves)

\* a null audio_url
NoUrl == [host |-> "", bucket |-> "", path |-> <<>>]

\* supabase.storage.from(bucket).getPublicUrl(fileName)
getPublicUrl(bucket, fileName) ==
    [host |-> "supabase", bucket |-> bucket, path |-> fileName]

\* the file a path names in a bucket
fileAt(bucket, fileName) == [bucket |-> bucket, path |-> fileName]

\* new URL(url).pathname split at the bucket's segment: the file path after
\* it, or nothing when the segment is missing or last
filePathOf(bucket, url) ==
    IF url.bucket = bucket /\ url.path # <<>> THEN url.path ELSE <<>>

\* storage.from(bucket).remove([filePath]) on the parsed url, when it answers
\* without error; a failed or skipped removal leaves the bucket as it is
removed(bucket, url, ok) ==
    IF ok /\ filePathOf(bucket, url) # <<>>
    THEN files \ {fileAt(bucket, filePathOf(bucket, url))}
    ELSE files

\* no row
NoRecord == [present |-> FALSE, name |-> <<>>, images |-> <<>>, audio_url |-> NoUrl]

\* the rows the page's plant may be stored as before any save
StoredPlants ==
    {[present |-> TRUE, name |-> <<"t">>,
      images |-> [i \in 1..k |-> getPublicUrl("plant-images", <<PageId, i>>)],
      audio_url |-> a] :
        k \in 0..2, a \in {NoUrl, getPublicUrl("plant-audio", <<PageId, 3>>)}}

\* the files the rows of a table reference
referenced(t) ==
    UNION {{fileAt("plant-images", t[i].images[j].path) : j \in 1..Len(t[i].images)}
           \cup (IF t[i].audio_url = NoUrl THEN {}
                 ELSE {fileAt("plant-audio", t[i].audio_url.path)}) : i \in PlantIds}

\* the names typed into a form: blank, or padded
FormNames == {<<" ">>, <<"n", " ">>}

\* the edit form over the loaded plant p, with no new image or MaxFiles of
\* them: handleRemoveImage moves images from existingImages to imagesToDelete
\* in the order of the clicks, here the first images from the front or the
\* last images from the back
EditForms(p) ==
    [name : FormNames,
     selectedFiles : {0, MaxFiles},
     imagesToDelete :
        {SubSeq(p.images, 1, k) : k \in 0..Len(p.images)}
        \cup {[i \in 1..k |-> p.images[Len(p.images) + 1 - i]] : k \in 0..Len(p.images)},
     selectedAudioFile : BOOLEAN,
     audioToDelete : BOOLEAN]

\* the add form of the Admin page
AddForms ==
    [name : FormNames, selectedFiles : {0, MaxFiles}, selectedAudioFile : BOOLEAN]

NoEditForm ==
    [name |-> <<>>, selectedFiles |-> 0, imagesToDelete |-> <<>>,
     selectedAudioFile |-> FALSE, audioToDelete |-> FALSE]

NoAddForm == [name |-> <<>>, selectedFiles |-> 0, selectedAudioFile |-> FALSE]

\* the detail page after loadPlant, and the Admin page, over a stored row
SaveAt(rec) ==
    /\ table = [i \in PlantIds |-> IF i = PageId THEN rec ELSE NoRecord]
    /\ files = referenced([i \in PlantIds |-> IF i = PageId THEN rec ELSE NoRecord])
    /\ nextFile = 4
    /\ session = FALSE
    /\ isAdmin = FALSE
    /\ showEditForm = FALSE
    /\ isSubmitting = FALSE
    /\ plant = rec
    /\ pcE = "idle"
    /\ edForm = NoEditForm
    /\ edNew = <<>>
    /\ edDel = <<>>
    /\ edAudio = NoUrl
    /\ pcA = "idle"
    /\ adForm = NoAddForm
    /\ adId = 0
    /\ adNew = <<>>
    /\ before = [table |-> table, files |-> files]
    /\ outcome = "none"
    /\ saveToast = {}
    /\ nSaves = 0
    /\ submitted = "none"

\* no save is exercised: a plant without images or audio
SaveIdle ==
    SaveAt([present |-> TRUE, name |-> <<"t">>, images |-> <<>>, audio_url |-> NoUrl])

\* the Edit button is in the rendered page
EditButtonShown == isAdmin

\* the edit form is in the rendered page
EditFormShown == showEditForm /\ isAdmin

\* neither form is being saved. A running save has closed over the page state
\* it reads, so the steps of the session and of the Edit button commute with
\* its steps and are taken between saves.
NoSaveRunning == pcE = "idle" /\ pcA = "idle"

\* the user signs in on the login page
SignIn ==
    /\ NoSaveRunning
    /\ ~session
    /\ session' = TRUE
    /\ UNCHANGED <<isAdmin, showEditForm, backendVars, editVars, adminVars,
                   ghostVars, seqVars, audioVars, chunkVars, gvVars, pickVars, pageVars>>

\* supabase.auth.signOut(), or the session expires
SignOut ==
    /\ NoSaveRunning
    /\ session
    /\ session' = FALSE
    /\ UNCHANGED <<isAdmin, showEditForm, backendVars, editVars, adminVars,
                   ghostVars, seqVars, audioVars, chunkVars, gvVars, pickVars, pageVars>>

\* checkAdmin(), run by the page's effect: setIsAdmin(!!session)
checkAdmin ==
    /\ NoSaveRunning
    /\ isAdmin' = session
    /\ UNCHANGED <<session, showEditForm, backendVars, editVars, adminVars,
                   ghostVars, seqVars, audioVars, chunkVars, gvVars, pickVars, pageVars>>

\* the Edit / Cancel Edit button: setShowEditForm(!showEditForm)
ToggleEditForm ==
    /\ NoSaveRunning
    /\ EditButtonShown
    /\ showEditForm' = ~showEditForm
    /\ UNCHANGED <<session, isAdmin, backendVars, editVars, adminVars,
                   ghostVars, seqVars, audioVars, chunkVars, gvVars, pickVars, pageVars>>

\* the audio step of handleEditSubmit up to its first await
edAudioBranch(form) ==
    IF form.audioToDelete /\ plant.audio_url # NoUrl
    THEN pcE' = "deleteAudio" /\ edAudio' = NoUrl
    ELSE IF form.selectedAudioFile
         THEN /\ pcE' = IF plant.audio_url # NoUrl THEN "deleteOldAudio"
                        ELSE "uploadAudio"
              /\ edAudio' = NoUrl
         ELSE pcE' = "update" /\ edAudio' = plant.audio_url

\* handleEditSubmit after uploadImages, up to its next await
edAfterUpload(form) ==
    IF form.imagesToDelete # <<>>
    THEN pcE' = "deleteImages" /\ edAudio' = NoUrl
    ELSE edAudioBranch(form)

\* the catch and finally blocks of handleEditSubmit; the call's locals are gone
editCatch(why) ==
    /\ pcE' = "idle"
    /\ isSubmitting' = FALSE
    /\ saveToast' = saveToast \cup {"Error"}
    /\ outcome' = why
    /\ edForm' = NoEditForm
    /\ edNew' = <<>>
    /\ edDel' = <<>>
    /\ edAudio' = NoUrl

\* handleEditSubmit past the admin check, up to its first await
editBegin(form) ==
    IF ~plant.present
    THEN /\ saveToast' = {}
         /\ outcome' = "returned"
         /\ UNCHANGED <<isSubmitting, pcE, edForm, edNew, edDel, edAudio, before>>
    ELSE IF trim(form.name) = <<>>
    THEN /\ saveToast' = {"Error"}
         /\ outcome' = "invalid"
         /\ UNCHANGED <<isSubmitting, pcE, edForm, edNew, edDel, edAudio, before>>
    ELSE /\ isSubmitting' = TRUE
         /\ edForm' = form
         /\ edNew' = <<>>
         /\ edDel' = form.imagesToDelete
         /\ before' = [table |-> table, files |-> files]
         /\ saveToast' = {}
         /\ outcome' = "running"
         /\ IF form.selectedFiles > 0
            THEN pcE' = "uploadImages" /\ edAudio' = NoUrl
            ELSE edAfterUpload(form)

\* handleEditSubmit skipping the admin check
handleEditSubmitUnchecked(form) ==
    /\ NoSaveRunning
    /\ nSaves < MaxSaves
    /\ nSaves' = nSaves + 1
    /\ submitted' = "edit"
    /\ editBegin(form)
    /\ UNCHANGED <<backendVars, authVars, plant, adminVars,
                   seqVars, audioVars, chunkVars, gvVars, pickVars, pageVars>>

\* handleEditSubmit(e), called by the form's onSubmit or otherwise, up to its
\* return or its first await
handleEditSubmit(form) ==
    /\ NoSaveRunning
    /\ nSaves < MaxSaves
    /\ nSaves' = nSaves + 1
    /\ submitted' = "edit"
    /\ IF ~isAdmin
       THEN /\ saveToast' = {"Unauthorized"}
            /\ outcome' = "denied"
            /\ UNCHANGED <<isSubmitting, pcE, edForm, edNew, edDel, edAudio, before>>
       ELSE editBegin(form)
    /\ UNCHANGED <<backendVars, authVars, plant, adminVars,
                   seqVars, audioVars, chunkVars, gvVars, pickVars, pageVars>>

\* uploadImages(id): one upload of its loop answers
EdUploadImage(ok) ==
    /\ pcE = "uploadImages"
    /\ IF ok
       THEN /\ files' = files \cup {fileAt("plant-images", <<PageId, nextFile>>)}
            /\ nextFile' = nextFile + 1
            /\ edNew' = Append(edNew, getPublicUrl("plant-images", <<PageId, nextFile>>))
            /\ IF Len(edNew) + 1 = edForm.selectedFiles
               THEN edAfterUpload(edForm)
               ELSE UNCHANGED <<pcE, edAudio>>
            /\ UNCHANGED <<isSubmitting, saveToast, outcome, edForm, edDel>>
       ELSE /\ editCatch("uploadFailed")
            /\ UNCHANGED <<files, nextFile>>
    /\ UNCHANGED <<table, authVars, plant, adminVars, before, nSaves, submitted,
                   seqVars, audioVars, chunkVars, gvVars, pickVars, pageVars>>

\* deleteImagesFromStorage(imagesToDelete): one removal of its loop answers;
\* an error is logged and the loop goes on
EdDeleteImage(ok) ==
    /\ pcE = "deleteImages"
    /\ files' = removed("plant-images", Head(edDel), ok)
    /\ edDel' = Tail(edDel)
    /\ IF Tail(edDel) = <<>>
       THEN edAudioBranch(edForm)
       ELSE UNCHANGED <<pcE, edAudio>>
    /\ UNCHANGED <<table, nextFile, authVars, isSubmitting, plant, edForm, edNew,
                   adminVars, ghostVars,
                   seqVars, audioVars, chunkVars, gvVars, pickVars, pageVars>>

\* deleteAudioFromStorage(plant.audio_url) answers, before the update or
\* before uploadAudio; an error is logged
EdDeleteAudio(ok) ==
    /\ pcE \in {"deleteAudio", "deleteOldAudio"}
    /\ files' = removed("plant-audio", plant.audio_url, ok)
    /\ pcE' = IF pcE = "deleteAudio" THEN "update" ELSE "uploadAudio"
    /\ UNCHANGED <<table, nextFile, authVars, isSubmitting, plant, edForm, edNew,
                   edDel, edAudio, adminVars, ghostVars,
                   seqVars, audioVars, chunkVars, gvVars, pickVars, pageVars>>

\* finalAudioUrl = await uploadAudio(id)
EdUploadAudio(ok) ==
    /\ pcE = "uploadAudio"
    /\ IF ok
       THEN /\ files' = files \cup {fileAt("plant-audio", <<PageId, nextFile>>)}
            /\ nextFile' = nextFile + 1
            /\ edAudio' = getPublicUrl("plant-audio", <<PageId, nextFile>>)
            /\ pcE' = "update"
            /\ UNCHANGED <<isSubmitting, saveToast, outcome, edForm, edNew, edDel>>
       ELSE /\ editCatch("uploadFailed")
            /\ UNCHANGED <<files, nextFile>>
    /\ UNCHANGED <<table, authVars, plant, adminVars, before,
                   nSaves, submitted, seqVars, audioVars, chunkVars, gvVars, pickVars, pageVars>>

\* finalImages made of every image of the plant, then the new ones
finalImagesKeepAll(form, newImageUrls) == plant.images \o newImageUrls

\* finalImages: the images kept, then the new ones
finalImages(form, newImageUrls) ==
    LET existingImages ==
            SelectSeq(plant.images, LAMBDA u : u \notin Range(form.imagesToDelete))
    IN  SelectSeq(existingImages, LAMBDA u : u \notin Range(form.imagesToDelete))
            \o newImageUrls

\* supabase.from("plants").update(updateData).eq("id", id) answers
EdUpdate(ok) ==
    /\ pcE = "update"
    /\ IF ok
       THEN /\ table' = [table EXCEPT ![PageId] =
                            [present |-> TRUE,
                             name |-> trim(edForm.name),
                             images |-> finalImages(edForm, edNew),
                             audio_url |-> edAudio]]
            /\ saveToast' = saveToast \cup {"Success"}
            /\ pcE' = "reload"
            /\ UNCHANGED <<isSubmitting, outcome, edForm, edNew, edDel, edAudio>>
       ELSE /\ editCatch("updateFailed")
            /\ UNCHANGED table
    /\ UNCHANGED <<files, nextFile, authVars, plant,
                   adminVars, before, nSaves, submitted,
                   seqVars, audioVars, chunkVars, gvVars, pickVars, pageVars>>

\* await loadPlant(id) returns; the form is closed and reset
EdReload ==
    /\ pcE = "reload"
    /\ plant' = table[PageId]
    /\ showEditForm' = FALSE
    /\ isSubmitting' = FALSE
    /\ pcE' = "idle"
    /\ outcome' = "saved"
    /\ edForm' = NoEditForm
    /\ edNew' = <<>>
    /\ edDel' = <<>>
    /\ edAudio' = NoUrl
    /\ UNCHANGED <<backendVars, session, isAdmin,
                   adminVars, before, saveToast, nSaves, submitted,
                   seqVars, audioVars, chunkVars, gvVars, pickVars, pageVars>>

\* the catch and finally blocks of the Admin page's handleSubmit
addCatch(why) ==
    /\ pcA' = "idle"
    /\ saveToast' = saveToast \cup {"Error"}
    /\ outcome' = why
    /\ adForm' = NoAddForm
    /\ adNew' = <<>>

\* the end of the try block of handleSubmit
addDone ==
    /\ pcA' = "idle"
    /\ saveToast' = saveToast \cup {"Success"}
    /\ outcome' = "saved"
    /\ adForm' = NoAddForm
    /\ adNew' = <<>>

\* handleSubmit after the images, up to its next await or its end
addAfterImages(form) ==
    IF form.selectedAudioFile
    THEN pcA' = "uploadAudio" /\ UNCHANGED <<saveToast, outcome, adForm, adNew>>
    ELSE addDone

\* handleSubmit without its test of the name
handleSubmitUnchecked(form) ==
    /\ session
    /\ NoSaveRunning
    /\ nSaves < MaxSaves
    /\ nSaves' = nSaves + 1
    /\ submitted' = "add"
    /\ pcA' = "insert"
    /\ adForm' = form
    /\ adNew' = <<>>
    /\ before' = [table |-> table, files |-> files]
    /\ saveToast' = {}
    /\ outcome' = "running"
    /\ UNCHANGED <<backendVars, authVars, editVars, adId,
                   seqVars, audioVars, chunkVars, gvVars, pickVars, pageVars>>

\* Admin page: handleSubmit(e), up to its return or its first await
handleSubmit(form) ==
    /\ session
    /\ NoSaveRunning
    /\ nSaves < MaxSaves
    /\ nSaves' = nSaves + 1
    /\ submitted' = "add"
    /\ IF trim(form.name) = <<>>
       THEN /\ saveToast' = {"Error"}
            /\ outcome' = "invalid"
            /\ UNCHANGED <<pcA, adForm, adNew, before>>
       ELSE /\ pcA' = "insert"
            /\ adForm' = form
            /\ adNew' = <<>>
            /\ before' = [table |-> table, files |-> files]
            /\ saveToast' = {}
            /\ outcome' = "running"
    /\ UNCHANGED <<backendVars, authVars, editVars, adId,
                   seqVars, audioVars, chunkVars, gvVars, pickVars, pageVars>>

\* supabase.from("plants").insert([plantData]).select().single() answers
AdInsert(ok) ==
    /\ pcA = "insert"
    /\ IF ok
       THEN /\ LET newId == 1 + Cardinality({i \in PlantIds : table[i].present})
               IN  /\ table' = [table EXCEPT ![newId] =
                                    [present |-> TRUE, name |-> trim(adForm.name),
                                     images |-> <<>>, audio_url |-> NoUrl]]
                   /\ adId' = newId
            /\ IF adForm.selectedFiles > 0
               THEN pcA' = "uploadImages"
                    /\ UNCHANGED <<saveToast, outcome, adForm, adNew>>
               ELSE addAfterImages(adForm)
       ELSE /\ addCatch("insertFailed")
            /\ UNCHANGED <<table, adId>>
    /\ UNCHANGED <<files, nextFile, authVars, editVars, before, nSaves, submitted,
                   seqVars, audioVars, chunkVars, gvVars, pickVars, pageVars>>

\* Admin page: uploadImages(plant.id), one upload of its loop answers
AdUploadImage(ok) ==
    /\ pcA = "uploadImages"
    /\ IF ok
       THEN /\ files' = files \cup {fileAt("plant-images", <<adId, nextFile>>)}
            /\ nextFile' = nextFile + 1
            /\ adNew' = Append(adNew, getPublicUrl("plant-images", <<adId, nextFile>>))
            /\ pcA' = IF Len(adNew) + 1 = adForm.selectedFiles
                      THEN "updateImages" ELSE pcA
            /\ UNCHANGED <<saveToast, outcome, adForm>>
       ELSE /\ addCatch("uploadFailed")
            /\ UNCHANGED <<files, nextFile>>
    /\ UNCHANGED <<table, authVars, editVars, adId, before, nSaves, submitted,
                   seqVars, audioVars, chunkVars, gvVars, pickVars, pageVars>>

\* update({ images: imageUrls }).eq("id", plant.id) answers
AdUpdateImages(ok) ==
    /\ pcA = "updateImages"
    /\ IF ok
       THEN /\ table' = [table EXCEPT ![adId].images = adNew]
            /\ addAfterImages(adForm)
       ELSE /\ addCatch("updateFailed")
            /\ UNCHANGED table
    /\ UNCHANGED <<files, nextFile, authVars, editVars, adId, before,
                   nSaves, submitted, seqVars, audioVars, chunkVars, gvVars, pickVars, pageVars>>

\* Admin page: uploadAudio(plant.id) answers
AdUploadAudio(ok) ==
    /\ pcA = "uploadAudio"
    /\ IF ok
       THEN /\ files' = files \cup {fileAt("plant-audio", <<adId, nextFile>>)}
            /\ nextFile' = nextFile + 1
            /\ pcA' = "updateAudio"
            /\ UNCHANGED <<saveToast, outcome, adForm, adNew>>
       ELSE /\ addCatch("uploadFailed")
            /\ UNCHANGED <<files, nextFile>>
    /\ UNCHANGED <<table, authVars, editVars, adId, before, nSaves, submitted,
                   seqVars, audioVars, chunkVars, gvVars, pickVars, pageVars>>

\* update({ audio_url: audioUrl }).eq("id", plant.id) answers; the file is
\* the one uploadAudio has just stored
AdUpdateAudio(ok) ==
    /\ pcA = "updateAudio"
    /\ IF ok
       THEN /\ table' = [table EXCEPT ![adId].audio_url =
                            getPublicUrl("plant-audio", <<adId, nextFile - 1>>)]
            /\ addDone
       ELSE /\ addCatch("updateFailed")
            /\ UNCHANGED table
    /\ UNCHANGED <<files, nextFile, authVars, editVars, adId, before,
                   nSaves, submitted, seqVars, audioVars, chunkVars, gvVars, pickVars, pageVars>>

NextSave ==
    \/ SignIn
    \/ SignOut
    \/ checkAdmin
    \/ ToggleEditForm
    \/ \E form \in EditForms(plant) : handleEditSubmit(form)
    \/ \E ok \in BOOLEAN : EdUploadImage(ok)
    \/ \E ok \in BOOLEAN : EdDeleteImage(ok)
    \/ \E ok \in BOOLEAN : EdDeleteAudio(ok)
    \/ \E ok \in BOOLEAN : EdUploadAudio(ok)
    \/ \E ok \in BOOLEAN : EdUpdate(ok)
    \/ EdReload
    \/ \E form \in AddForms : handleSubmit(form)
    \/ \E ok \in BOOLEAN : AdInsert(ok)
    \/ \E ok \in BOOLEAN : AdUploadImage(ok)
    \/ \E ok \in BOOLEAN : AdUpdateImages(ok)
    \/ \E ok \in BOOLEAN : AdUploadAudio(ok)
    \/ \E ok \in BOOLEAN : AdUpdateAudio(ok)

\* ============================================ the Admin page and its session
\* bound: loadPlants calls of one visit of the Admin page
MaxListLoads == 2

\* bound: auth-state changes that reach the page from outside
MaxAuthEvents == 2

ListLoads == 1..MaxListLoads

\* the Admin page on route r with the auth client holding a session or not:
\* useState([]) for plants, useState(true) for loading, checkAuth not started
AdmAt(r, hasSession) ==
    [route |-> r, session |-> hasSession, plants |-> "empty", loading |-> TRUE,
     ca |-> "none", check |-> "none",
     pcL |-> [n \in ListLoads |-> "none"], nCalls |-> 0,
     nEv |-> 0, ev |-> [kind |-> "none", session |-> FALSE],
     toasts |-> {}]

\* the Admin page not opened
AdmIdle == adm = AdmAt("none", FALSE)

\* the Admin page is rendered: its effect is subscribed, its setters act
Mounted(a) == a.route = "admin"

\* navigate("/login"): the router leaves the Admin page
navigate(a) == [a EXCEPT !.route = "login"]

\* setPlants(data || []), setLoading(false): nothing on a page that is gone
setPlants(a) == IF Mounted(a) THEN [a EXCEPT !.plants = "list"] ELSE a

setLoadingFalse(a) == IF Mounted(a) THEN [a EXCEPT !.loading = FALSE] ELSE a

toastA(a, title) == [a EXCEPT !.toasts = @ \cup {title}]

\* loadPlants(): up to the await of getSession
loadPlants(a) ==
    [a EXCEPT !.nCalls = @ + 1, !.pcL[a.nCalls + 1] = "getSession"]

\* the handler without its SIGNED_OUT / null-session branch
onAuthStateChangeStays(a, event, hasSession) ==
    IF event = "SIGNED_IN" /\ hasSession THEN loadPlants(a) ELSE a

\* the callback given to supabase.auth.onAuthStateChange
onAuthStateChange(a, event, hasSession) ==
    IF event = "SIGNED_OUT" \/ ~hasSession THEN navigate(a)
    ELSE IF event = "SIGNED_IN" /\ hasSession THEN loadPlants(a)
    ELSE a

\* the auth client emits an event to the subscribers that are left
emit(a, event, hasSession) ==
    LET a1 == [a EXCEPT !.nEv = @ + 1,
                        !.ev = [kind |-> event, session |-> hasSession]]
    IN  IF Mounted(a) THEN onAuthStateChange(a1, event, hasSession) ELSE a1

\* what getSession answers to checkAuth
CheckResults == {"session", "nosession", "error", "throws"}

\* what the plants query answers to loadPlants
ListAnswers == {"data", "PGRST116", "JWT", "failed"}

AuthEvents == {"INITIAL_SESSION", "SIGNED_IN", "SIGNED_OUT", "TOKEN_REFRESHED"}

admRest == <<lp, lpReq, seqVars, audioVars, chunkVars, gvVars, pickVars, saveVars>>

\* the effect of the Admin page on mount: checkAuth() up to its await, and
\* the subscription to the auth events
MountAdmin ==
    /\ Mounted(adm) /\ adm.ca = "none"
    /\ adm' = [adm EXCEPT !.ca = "getSession"]
    /\ UNCHANGED admRest

\* checkAuth after getSession answered r
CheckAuthAnswer(r) ==
    /\ adm.ca = "getSession"
    /\ r = "session" => adm.session /\ adm.nCalls < MaxListLoads
    /\ r = "nosession" => ~adm.session
    /\ LET a == [adm EXCEPT !.ca = "done", !.check = r]
       IN  adm' = CASE r = "session" -> loadPlants(a)
                    [] r = "nosession" -> navigate(a)
                    [] r = "error" -> navigate(toastA(a, "Authentication Error"))
                    [] OTHER -> navigate(toastA(a, "Error"))
    /\ UNCHANGED admRest

\* the auth client changes state elsewhere (another tab, the login page, a
\* token refresh) and tells the page
AuthEvent(event, hasSession) ==
    /\ Mounted(adm) /\ adm.ca # "none"
    /\ adm.nEv < MaxAuthEvents
    /\ CASE event = "SIGNED_IN" -> hasSession
         [] event = "SIGNED_OUT" -> ~hasSession
         [] event = "TOKEN_REFRESHED" -> hasSession /\ adm.session
         [] OTHER -> hasSession = adm.session /\ adm.nEv = 0
    /\ (event = "SIGNED_IN" /\ hasSession) => adm.nCalls < MaxListLoads
    /\ adm' = emit([adm EXCEPT !.session = hasSession], event, hasSession)
    /\ UNCHANGED admRest

\* loadPlants call n after getSession answered: the query is sent, or the
\* page leaves for /login, or the catch block reports
ListSession(n, r) ==
    /\ adm.pcL[n] = "getSession"
    /\ r \in {"session", "nosession", "throws"}
    /\ r = "session" => adm.session
    /\ adm' = CASE r = "session" -> [adm EXCEPT !.pcL[n] = "query"]
                [] r = "nosession" ->
                       setLoadingFalse(navigate([adm EXCEPT !.pcL[n] = "done"]))
                [] OTHER ->
                       setLoadingFalse(toastA([adm EXCEPT !.pcL[n] = "done"], "Error"))
    /\ UNCHANGED admRest

\* loadPlants call n after the query answered r
ListAnswer(n, r) ==
    /\ adm.pcL[n] = "query"
    /\ adm' = CASE r = "data" ->
                       setLoadingFalse(setPlants([adm EXCEPT !.pcL[n] = "done"]))
                [] r \in {"PGRST116", "JWT"} ->
                       toastA([adm EXCEPT !.pcL[n] = "signOut"], "Session Expired")
                [] OTHER ->
                       setLoadingFalse(toastA([adm EXCEPT !.pcL[n] = "done"], "Error"))
    /\ UNCHANGED admRest

\* supabase.auth.signOut() of call n takes effect: the session is dropped and
\* SIGNED_OUT is emitted
SignedOut(n) ==
    /\ adm.pcL[n] = "signOut"
    /\ adm' = emit([adm EXCEPT !.session = FALSE, !.pcL[n] = "signedOut"],
                   "SIGNED_OUT", FALSE)
    /\ UNCHANGED admRest

\* loadPlants call n after await supabase.auth.signOut(): navigate, finally
SignOutReturns(n) ==
    /\ adm.pcL[n] = "signedOut"
    /\ adm' = setLoadingFalse(navigate([adm EXCEPT !.pcL[n] = "done"]))
    /\ UNCHANGED admRest

NextAdmin ==
    \/ MountAdmin
    \/ \E r \in CheckResults : CheckAuthAnswer(r)
    \/ \E event \in AuthEvents, hasSession \in BOOLEAN : AuthEvent(event, hasSession)
    \/ \E n \in ListLoads, r \in {"session", "nosession", "throws"} : ListSession(n, r)
    \/ \E n \in ListLoads, r \in ListAnswers : ListAnswer(n, r)
    \/ \E n \in ListLoads : SignedOut(n)
    \/ \E n \in ListLoads : SignOutReturns(n)

\* ===================================================== loadPlant(plantId)
\* the ids the route takes
RouteIds == {1, 2}

\* what the query answers: a row, error PGRST116, no error and no row, or
\* another error
Answers == {"row", "PGRST116", "nodata", "failed"}

LoadCalls == 1..MaxLoads

\* the page of revision rev after construction: useState(true) for loading
LoadAt(rev) ==
    /\ lp = [rev |-> rev, loading |-> TRUE, error |-> "null", plant |-> 0,
             form |-> 0, nLoads |-> 0]
    /\ lpReq = [n \in LoadCalls |->
                    [id |-> 0, pc |-> "none", answer |-> "none", toast |-> FALSE]]

LoadIdle == LoadAt("edit")

\* loadPlant(id), called by the effect on a new route id or by a save: up to
\* the await of the query
loadPlant(id) ==
    /\ lp.nLoads < MaxLoads
    /\ lp' = [lp EXCEPT !.loading = TRUE, !.error = "null", !.nLoads = @ + 1]
    /\ lpReq' = [lpReq EXCEPT ![lp.nLoads + 1] =
                    [id |-> id, pc |-> "await", answer |-> "none", toast |-> FALSE]]
    /\ UNCHANGED <<adm, seqVars, audioVars, chunkVars, gvVars, pickVars, saveVars>>

\* the page after the answer a of call n, before the finally block
loaded(n, a) ==
    IF a = "row"
    THEN [lp EXCEPT !.plant = lpReq[n].id,
                    !.form = IF lp.rev = "edit" THEN lpReq[n].id ELSE @]
    ELSE IF a \in {"PGRST116", "nodata"}
    THEN [lp EXCEPT !.error = "Plant not found"]
    ELSE [lp EXCEPT !.error = "Failed to load plant details. Please try again."]

\* the rest of loadPlant once its query has answered, the finally block included
settled(n, a) == [loaded(n, a) EXCEPT !.loading = FALSE]

\* the query of call n answers
LoadAnswer(n, a) ==
    /\ lpReq[n].pc = "await"
    /\ lp' = settled(n, a)
    /\ lpReq' = [lpReq EXCEPT ![n] = [@ EXCEPT !.pc = "done", !.answer = a,
                                                !.toast = (a = "failed")]]
    /\ UNCHANGED <<adm, seqVars, audioVars, chunkVars, gvVars, pickVars, saveVars>>

NextLoad ==
    \/ \E id \in RouteIds : loadPlant(id)
    \/ \E n \in LoadCalls, a \in Answers : LoadAnswer(n, a)

\* the helpers and pages the two controllers do not use are at rest
OthersIdle ==
    /\ ChunkIdle
    /\ VoicesIdle
    /\ PickIdle
    /\ SaveIdle
    /\ LoadIdle
    /\ AdmIdle

\* the plant of the pages on which only the sequencer is exercised
NoAudioPlant == [shloka |-> <<>>, audio_url |-> <<>>]

\* the page after mount, with any plant loaded
InitPage ==
    /\ InitSeq
    /\ InitAudio
    /\ OthersIdle

SpecAudio == InitPage /\ [][NextAudio]_vars

\* what the stored-audio revision can rely on: timers fire, queued event tasks
\* run, a play() promise settles and the speech engine finishes an utterance.
\* Nothing makes the network deliver the stored audio or an error for it, and
\* nothing makes the user press a button.
FairAudio ==
    /\ \A q \in Plays : WF_vars(Settle(q))
    /\ \A q \in Plays : WF_vars(LoadTimeout(q))
    /\ \A q \in Plays : WF_vars(TtsDelay(q))
    /\ \A q \in Plays : WF_vars(PlayResolved(q) \/ PlayRejected(q))
    /\ WF_vars(MediaTask)
    /\ WF_vars(MediaEnded)
    /\ WF_vars(TtsStart)
    /\ WF_vars(\E u \in UtterancesS : TtsEnd(u) \/ TtsError(u))

LiveAudio == SpecAudio /\ FairAudio

\* the shlokas without text
BlankShlokas == {t \in Shlokas : trim(t) = <<>>}

\* both revisions of the page, the sequencer's play button pressed on plants
\* without text only
NextNoText ==
    \/ NextAudio
    \/ \E t \in BlankShlokas : Play(t)
    \/ LoadVoices

SpecNoText == InitPage /\ [][NextNoText]_vars

\* ------------------------------------------------------- specifications
\* the page after mount, showing a plant without stored audio
Init ==
    /\ InitSeq
    /\ AudioAt(NoAudioPlant)
    /\ OthersIdle

Spec == Init /\ [][NextSeq]_vars


\* one play request, no stop: the page is left alone after the first click
PlayOnce(t) ==
    /\ nReq = 0
    /\ Play(t)

NextLive ==
    \/ \E t \in AllShlokas : PlayOnce(t)
    \/ LoadVoices
    \/ \E r \in Requests : VoicesPoll(r)
    \/ \E r \in Requests : VoicesTimeout(r)
    \/ \E r \in Requests : SpeakTimer(r)
    \/ EngineStart
    \/ \E u \in Utterances : EngineEnd(u)
    \/ \E u \in Utterances : EngineError(u)

\* timers of the event loop fire; the engine starts the head of its queue and
\* fires a completion event for every utterance it was given
LiveSpec ==
    /\ Init
    /\ [][NextLive]_vars
    /\ WF_vars(\E r \in Requests : VoicesTimeout(r))
    /\ WF_vars(\E r \in Requests : SpeakTimer(r))
    /\ WF_vars(EngineStart)
    /\ WF_vars(\E u \in Utterances : EngineEnd(u) \/ EngineError(u))

\* chunkText on any text and any bound
InitChunk ==
    /\ InitSeq
    /\ AudioAt(NoAudioPlant)
    /\ ctText \in Texts
    /\ ctMaxLen \in 1..MaxChunkBound
    /\ ctCalled = FALSE
    /\ ctChunks = <<>>
    /\ VoicesIdle
    /\ PickIdle
    /\ SaveIdle
    /\ LoadIdle
    /\ AdmIdle

NextChunk == CallChunkText

SpecChunk == InitChunk /\ [][NextChunk]_vars


\* getVoicesAsync called once, before or after the browser has its voices;
\* the timers of the event loop fire
NextVoices ==
    \/ GetVoices
    \/ LoadVoices
    \/ GvPoll
    \/ GvTimeout

SpecVoices ==
    /\ Init
    /\ [][NextVoices]_vars
    /\ WF_vars(GvPoll)
    /\ WF_vars(GvTimeout)

\* pickSanskritVoice on any list of voices
InitPick ==
    /\ InitSeq
    /\ AudioAt(NoAudioPlant)
    /\ ChunkIdle
    /\ VoicesIdle
    /\ pvVoices \in AllVoiceLists
    /\ pvCalled = FALSE
    /\ pvPicked = NoVoice
    /\ SaveIdle
    /\ LoadIdle
    /\ AdmIdle

NextPick == CallPickVoice

SpecPick == InitPick /\ [][NextPick]_vars

\* the detail page of any stored plant and the Admin page, signed out at first
InitSave ==
    /\ InitSeq
    /\ AudioAt(NoAudioPlant)
    /\ ChunkIdle
    /\ VoicesIdle
    /\ PickIdle
    /\ \E rec \in StoredPlants : SaveAt(rec)
    /\ LoadIdle
    /\ AdmIdle

SpecSave == InitSave /\ [][NextSave]_vars

\* the detail page of either revision before its first loadPlant
InitLoad ==
    /\ InitSeq
    /\ AudioAt(NoAudioPlant)
    /\ ChunkIdle
    /\ VoicesIdle
    /\ PickIdle
    /\ SaveIdle
    /\ AdmIdle
    /\ \E rev \in {"edit", "seq"} : LoadAt(rev)

SpecLoad == InitLoad /\ [][NextLoad]_vars

\* the Admin page as the router renders it, signed in or not
InitAdmin ==
    /\ InitSeq
    /\ AudioAt(NoAudioPlant)
    /\ ChunkIdle
    /\ VoicesIdle
    /\ PickIdle
    /\ SaveIdle
    /\ LoadIdle
    /\ \E hasSession \in BOOLEAN : adm = AdmAt("admin", hasSession)

SpecAdmin == InitAdmin /\ [][NextAdmin]_vars

\* ------------------------------------------------- claims on the sequencer
\* <<0, 1, ..., k - 1>>
Upto(k) == [i \in 1..k |-> i - 1]

\* every completion event request r received was an end event
AllEnded(r) == \A k \in 1..Len(evLog[r]) : evLog[r][k] = "end"

\* request r spoke all its chunks, more than one, and returned
PlayedThrough(r) ==
    /\ pc[r] = "done" /\ nChunks[r] > 1
    /\ handedLog[r] = Upto(nChunks[r])
    /\ Len(evLog[r]) = nChunks[r] /\ AllEnded(r)

\* C1: within one play request the chunks are handed to the engine in order,
\* one at a time: chunk i + 1 is passed to speak() only after the completion
\* event of chunk i has fired, and the engine never holds two of its utterances
C1_SequentialChunks ==
    \A r \in Requests :
        /\ handedLog[r] = Upto(Len(handedLog[r]))
        /\ Len(handedLog[r]) <= Len(evLog[r]) + 1
        /\ Cardinality({u \in Utterances : u[1] = r}) <= 1

C1_Witness ==
    \E r \in Requests : handedLog[r] = <<0, 1>> /\ evLog[r] = <<"end">>

\* C2: a new play request supersedes every earlier one: no earlier request
\* passes a chunk to speak() once a later one has started, and the engine never
\* holds utterances of two requests
C2_OneActiveSequence ==
    [][/\ \A r \in Requests : r < nReq => handedLog'[r] = handedLog[r]
       /\ \A u, v \in Range(queue') : u[1] = v[1]]_vars

\* C3: once a stop is acknowledged, the stopped request passes no further
\* utterance to speak()
C3_NoSpeakAfterStop ==
    [][\A r \in Requests : stoppedReq[r] => handedLog'[r] = handedLog[r]]_vars

\* C4: a stop leaves the controller idle with no nudge timer, and a
\* completion event of a stopped request changes neither isPlaying nor the
\* nudge timer and starts no further chunk
C4_StopIsFinal ==
    [][/\ stoppedReq' # stoppedReq => (~isPlaying' /\ nudgeLive' = 0 /\ ~resumeNudgeRef')
       /\ \A r \in Requests :
            (stoppedReq[r] /\ evLog'[r] # evLog[r]) =>
                /\ isPlaying' = isPlaying
                /\ nudgeLive' = nudgeLive
                /\ resumeNudgeRef' = resumeNudgeRef
                /\ pc'[r] = "done"]_vars

\* C5: a stopped play request raises no error notification, whichever
\* completion event the engine fires for the canceled utterance
C5_StopIsNoError ==
    \A r \in Requests : stoppedReq[r] => toast[r] = "none"

\* C6: whenever the controller is idle (isPlaying false, the engine holds no
\* utterance) no resume-nudge interval is running
C6_NudgeTornDown ==
    (~isPlaying /\ Utterances = {}) => (nudgeLive = 0 /\ ~resumeNudgeRef)

C6_Witness ==
    /\ ~isPlaying /\ Utterances = {}
    /\ \E r \in Requests : PlayedThrough(r)
    /\ \E r \in Requests : pc[r] = "done" /\ stoppedReq[r] /\ evLog[r] # <<>>

\* C7: an engine error for chunk i of a request that was not stopped ends the
\* request: isPlaying false, the error notification raised, no chunk after i
\* passed to speak(), then or later
C7_ErrorAborts ==
    [][\A r \in Requests :
          /\ (~stoppedReq[r] /\ evLog'[r] = Append(evLog[r], "error")) =>
                /\ ~isPlaying'
                /\ toast'[r] = "unavailable"
                /\ pc'[r] = "done"
                /\ handedLog'[r] = handedLog[r]
          /\ (pc[r] = "done" /\ ~stoppedReq[r]) =>
                (pc'[r] = "done" /\ handedLog'[r] = handedLog[r])]_vars

C7_Witness ==
    \E r \in Requests :
        /\ ~stoppedReq[r] /\ nChunks[r] > 1
        /\ evLog[r] = <<"error">> /\ handedLog[r] = <<0>>
        /\ toast[r] = "unavailable" /\ pc[r] = "done" /\ ~isPlaying

\* C8: with no stop and no second request, a play request on non-empty text
\* ends idle for good; when no utterance failed, every chunk was spoken
C8_PlaysToTheEnd ==
    (nReq = 1 /\ nChunks[1] > 0) ~>
        [](/\ ~isPlaying
           /\ pc[1] = "done"
           /\ AllEnded(1) =>
                 (handedLog[1] = Upto(nChunks[1]) /\ Len(evLog[1]) = nChunks[1]))

C8_Witness ==
    /\ nReq = 1 /\ PlayedThrough(1) /\ ~isPlaying

\* ---------------------------------------- claims on the stored-audio revision
\* C9: a play request whose stored audio failed to load (error event or load
\* timeout), with no stop by the user, has fallen back to playTTS exactly once
\* by the time playAudio returns
C9_ExactlyOneFallback ==
    \A q \in Plays :
        (/\ pcS[q] = "done" /\ mediaTries[q] > 0 /\ ~userStopped
         /\ signals[q] \cap {"error", "timeout"} # {})
            => fallbacks[q] = 1

\* C10: whatever failure signals reach a play request, and in whatever order,
\* it calls playTTS as a fallback at most once and loads the stored audio at
\* most once (the fallback never goes back to the media element)
C10_AtMostOneFallback ==
    \A q \in Plays : fallbacks[q] <= 1 /\ mediaTries[q] <= 1

C10_Witness ==
    \E q \in Plays :
        /\ pcS[q] = "done" /\ mediaTries[q] = 1
        /\ {"abort", "error"} \subseteq signals[q]
        /\ \E p \in Plays : "timeout" \in signals[p]

\* plant.audio_url && plant.audio_url.trim() !== "" as the claims read it
HasStoredAudio == trim(plantS.audio_url) # <<>>

\* playAudio call q is past its 100 ms delay on a plant with shloka text
Routed(q) == pcS[q] \in {"loading", "playPromise", "done"} /\ trim(plantS.shloka) # <<>>

\* C11: with shloka text, a plant with a non-blank audio URL gets the media
\* element first and playTTS only after a failure signal; a plant whose audio
\* URL is null, empty or blank goes straight to playTTS, without a load of the
\* media element and without an error notification
C11_StoredAudioFirst ==
    \A q \in Plays :
        Routed(q) =>
            IF HasStoredAudio
            THEN mediaTries[q] = 1 /\ (ttsCalls[q] > 0 => signals[q] # {})
            ELSE /\ mediaTries[q] = 0 /\ ttsCalls[q] = 1 /\ fallbacks[q] = 0
                 /\ toastS[q] \cap {"Audio Error", "No text"} = {}
                 /\ listeners[q] = {}

C11_Witness ==
    /\ plantS.audio_url = <<" ">>
    /\ pcS[1] = "done" /\ ttsCalls[1] = 1 /\ spoken[1] = 1
    /\ "Playing TTS" \in toastS[1]

\* --------------------------------------------------------- claims on chunkText
\* the concatenation of the chunks
RECURSIVE Flatten(_)
Flatten(chunks) ==
    IF chunks = <<>> THEN <<>> ELSE Head(chunks) \o Flatten(Tail(chunks))

\* the characters of s that are not whitespace, in order
NonSpace(s) == SelectSeq(s, LAMBDA c : ~IsSpace(c))

\* t from position i on is the chunks from the k-th on, each taken without
\* the whitespace at its ends, with any whitespace between them
RECURSIVE Rebuilds(_, _, _, _)
Rebuilds(t, i, chunks, k) ==
    LET j == skipSpaces(t, i)
    IN  IF k > Len(chunks) THEN j = Len(t) + 1
        ELSE LET c == trim(chunks[k])
             IN  /\ j + Len(c) - 1 <= Len(t)
                 /\ SubSeq(t, j, j + Len(c) - 1) = c
                 /\ Rebuilds(t, j + Len(c), chunks, k + 1)

\* C12: every chunk chunkText returns is at most maxLen characters long
C12_ChunkWithinBound ==
    ctCalled => \A k \in 1..Len(ctChunks) : Len(ctChunks[k]) <= ctMaxLen

\* C13: chunkText returns no empty chunk: none of the elements is the empty
\* string, for empty and whitespace-only text too
C13_NoEmptyChunk ==
    ctCalled => \A k \in 1..Len(ctChunks) : ctChunks[k] # <<>>

C13_Witness ==
    /\ ctCalled
    /\ ctText # <<>> /\ trim(ctText) = <<>>
    /\ ctChunks # <<>>

ShortTrimmed == ctText # <<>> /\ trim(ctText) = ctText /\ Len(ctText) <= ctMaxLen

C16_VoicesResolve ==
    /\ (gvPc = "pending") ~> (gvPc = "resolved")
    /\ [](gvPc = "resolved" => ~gvIv)
    /\ [][/\ (gvPc = "idle" /\ gvPc' # "idle") =>
                IF voices # <<>>
                THEN gvPc' = "resolved" /\ gvResult' = voices /\ ~gvIv' /\ ~gvTimer'
                ELSE gvPc' = "pending"
          /\ (gvPc = "pending" /\ gvTicks' # gvTicks) =>
                IF voices # <<>>
                THEN gvPc' = "resolved" /\ gvResult' = voices
                ELSE gvPc' = "pending"
          /\ (gvPc = "pending" /\ gvPc' = "resolved" /\ gvTicks' = gvTicks) =>
                /\ gvTimer /\ ~gvTimer'
                /\ (gvTicks + 1) * PollMs >= VoicesTimeoutMs
                /\ gvResult' = voices
          /\ gvPc = "resolved" => (gvPc' = "resolved" /\ gvResult' = gvResult)]_vars

C16_Witness ==
    /\ gvPc = "resolved" /\ gvHow = "timeout" /\ gvResult = <<>>
    /\ gvTicks * PollMs = VoicesTimeoutMs /\ ~gvIv /\ ~gvTimer

\* ------------------------------------------------- claims on pickSanskritVoice
\* the language of v is the target locale: sa or sa-IN in any case
ExactLocale(v) == lower(v.lang) \in {<<"s", "a">>, <<"s", "a", "-", "i", "n">>}

\* the language of v starts with sa, in any case
LocalePrefix(v) == Len(v.lang) >= 2 /\ lower(SubSeq(v.lang, 1, 2)) = <<"s", "a">>

\* the name of v contains sanskrit, in any case
SanskritName(v) ==
    \E i \in 1..(Len(v.name) - 7) :
        lower(SubSeq(v.name, i, i + 7)) = <<"s", "a", "n", "s", "k", "r", "i", "t">>

\* v is the first voice of list that passes Test
FirstThat(Test(_), list, v) ==
    \E i \in 1..Len(list) :
        /\ list[i] = v /\ Test(v)
        /\ \A j \in 1..(i - 1) : ~Test(list[j])

\* C17: the voice picked is the first one with the exact locale if the list
\* has one, wherever it stands; else the first whose language starts with sa;
\* else the first whose name contains sanskrit; else none
C17_VoicePriority ==
    pvCalled =>
        IF \E i \in 1..Len(pvVoices) : ExactLocale(pvVoices[i])
        THEN FirstThat(ExactLocale, pvVoices, pvPicked)
        ELSE IF \E i \in 1..Len(pvVoices) : LocalePrefix(pvVoices[i])
        THEN FirstThat(LocalePrefix, pvVoices, pvPicked)
        ELSE IF \E i \in 1..Len(pvVoices) : SanskritName(pvVoices[i])
        THEN FirstThat(SanskritName, pvVoices, pvPicked)
        ELSE pvPicked = NoVoice

C17_Witness ==
    /\ pvCalled
    /\ pvVoices = <<PrefixVoice, NamedVoice, SanskritVoice>>
    /\ pvPicked = SanskritVoice

\* ----------------------------------------- claims on the sequencer's voice
\* pickSanskritVoice on each list the engine may report
SanskritVoiceOf == [list \in VoiceLists \cup {<<>>} |-> pickSanskritVoice(list)]

\* the utterances call r has built or handed and the engine has not retired
UtterancesOf(r) ==
    {u \in Utterances : u[1] = r} \cup (IF utter[r] = <<>> THEN {} ELSE {utter[r]})

\* C18: with no Sanskrit voice in the list, be it empty after the timeout or
\* without a match, every utterance carries the language tag sa-IN and no
\* voice; the request raises the error notification only on an error event of
\* the engine; left alone, with every utterance ended, it has handed all its
\* chunks
C18_NoVoiceIsNoError ==
    LET voiceless == SanskritVoiceOf[voices] = NoVoice
    IN  \A r \in Requests :
            /\ \A u \in UtterancesOf(r) :
                  u[3].lang = SaIN /\ (voiceless => u[3].voice = NoVoice)
            /\ toast[r] = "unavailable" => "error" \in Range(evLog[r])
            /\ (/\ nReq = 1 /\ pc[r] = "done" /\ ~stoppedReq[r] /\ nChunks[r] > 0
                /\ AllEnded(r) /\ voiceless)
                  => (handedLog[r] = Upto(nChunks[r]) /\ toast[r] = "none")

C18_Witness ==
    /\ voices = <<HindiVoice>> /\ voiceRef = NoVoice
    /\ nReq = 1 /\ nChunks[1] > 1 /\ ~stoppedReq[1]
    /\ handedLog[1] = Upto(nChunks[1])
    /\ Len(evLog[1]) = nChunks[1] - 1 /\ AllEnded(1)
    /\ \E u \in Range(queue) : u[1] = 1 /\ u[3].voice = NoVoice /\ u[3].lang = SaIN
    /\ toast[1] = "none"


\* ------------------------------------------------ claims on saving a plant
\* C19: a save of the edit form or of the add form that ends because an
\* upload failed has shown an error notification, and the plants table and
\* every stored file its rows referenced are as they were when the save began
C19_FailedUploadKeepsState ==
    outcome = "uploadFailed" =>
        /\ "Error" \in saveToast
        /\ table = before.table
        /\ (referenced(before.table) \cap before.files) \subseteq files

\* C20: handleEditSubmit called while isAdmin is false uploads, deletes and
\* updates nothing and shows the Unauthorized notification; the Edit button
\* and the edit form are rendered only while isAdmin is true
C20_EditingAdminOnly ==
    [][/\ (nSaves' = nSaves + 1 /\ submitted' = "edit" /\ ~isAdmin) =>
            /\ UNCHANGED backendVars
            /\ pcE' = "idle"
            /\ saveToast' = {"Unauthorized"}
       /\ (EditButtonShown' \/ EditFormShown') => isAdmin']_vars

\* the handler has been called without admin rights, on a page whose form
\* was opened while the user was still signed in
C20_Witness ==
    /\ submitted = "edit"
    /\ outcome = "denied"
    /\ showEditForm
    /\ ~isAdmin
    /\ ~EditFormShown

\* C23: the add form creates a plant by one insert with an empty image list;
\* the new row is updated only when files were selected and only with the
\* public URLs their upload has returned; a blank name issues nothing
C23_OneInsertThenUpdates ==
    [][/\ \A i \in PlantIds : (~table[i].present /\ table'[i].present) =>
              /\ pcA = "insert"
              /\ table'[i].name = trim(adForm.name) /\ table'[i].name # <<>>
              /\ table'[i].images = <<>> /\ table'[i].audio_url = NoUrl
       /\ (pcA' = "insert" /\ pcA # "insert") =>
              (pcA = "idle" /\ nSaves' = nSaves + 1)
       /\ \A i \in PlantIds :
              (submitted = "add" /\ table[i].present /\ table'[i] # table[i]) =>
                 /\ i = adId
                 /\ \/ /\ pcA = "updateImages"
                       /\ adForm.selectedFiles > 0
                       /\ Len(table'[i].images) = adForm.selectedFiles
                       /\ table'[i].audio_url = table[i].audio_url
                    \/ /\ pcA = "updateAudio"
                       /\ adForm.selectedAudioFile
                       /\ table'[i].audio_url # NoUrl
                       /\ table'[i].images = table[i].images
                 /\ referenced([j \in PlantIds |->
                        IF j = i THEN table'[i] ELSE NoRecord]) \subseteq files
       /\ \A form \in AddForms :
              (trim(form.name) = <<>> /\ handleSubmit(form)) =>
                 (pcA' = "idle" /\ UNCHANGED backendVars)]_vars

\* a plant was added with its images and its audio
C23_Witness ==
    /\ submitted = "add" /\ outcome = "saved"
    /\ \E i \in PlantIds :
          /\ i # PageId /\ table[i].present
          /\ Len(table[i].images) = MaxFiles
          /\ table[i].audio_url # NoUrl

\* C26: when a new audio file is selected in the edit form and the save
\* succeeds, the saved audio_url is the public URL of the file just uploaded,
\* whatever the rest of the form, removal of the existing audio included
C26_NewAudioSaved ==
    [][(pcE = "update" /\ pcE' = "reload" /\ edForm.selectedAudioFile) =>
          LET url == table'[PageId].audio_url
          IN  /\ url # NoUrl
              /\ fileAt("plant-audio", url.path) \in files \ before.files]_vars

\* C27: a successful save of the edit form stores the plant's images that
\* were not removed, in their order, then the URLs of the new uploads in the
\* order of selection; no removed URL is stored, and no image file other than
\* a removed one has left the storage
C27_SavedImages ==
    [][(pcE = "update" /\ pcE' = "reload") =>
          LET saved == table'[PageId].images
              gone == Range(edForm.imagesToDelete)
              kept == SelectSeq(plant.images, LAMBDA u : u \notin gone)
          IN  /\ saved = kept \o edNew
              /\ Len(edNew) = edForm.selectedFiles
              /\ \A i, j \in 1..Len(edNew) : i < j => edNew[i].path[2] < edNew[j].path[2]
              /\ \A i \in 1..Len(edNew) : fileAt("plant-images", edNew[i].path) \in files
              /\ Range(saved) \cap gone = {}
              /\ \A f \in before.files \ files :
                    f.bucket = "plant-images" =>
                        \E u \in gone : f = fileAt("plant-images", u.path)]_vars

\* the first of two images was removed, new images were added, and the save
\* succeeded
C27_Witness ==
    /\ submitted = "edit" /\ outcome = "saved"
    /\ Len(table[PageId].images) = 1 + MaxFiles
    /\ table[PageId].images[1] = getPublicUrl("plant-images", <<PageId, 2>>)
    /\ fileAt("plant-images", <<PageId, 1>>) \notin files

\* ------------------------------------------- claims on plants without text
\* C21: a play request for an empty or blank shloka never plays: it hands no
\* utterance to the engine and starts no media load, isPlaying stays false,
\* and it shows the 'No text available to play' notification
C21_NoTextNeverPlays ==
    /\ \A r \in Requests : r <= nReq =>
            /\ toast[r] = "notext"
            /\ handedLog[r] = <<>>
            /\ pc[r] = "done"
    /\ ~isPlaying /\ queue = <<>>
    /\ trim(plantS.shloka) = <<>> =>
            /\ \A q \in Plays : q <= nPlay =>
                    /\ toastS[q] = {"No text"}
                    /\ pcS[q] = "done"
                    /\ spoken[q] = 0 /\ ttsCalls[q] = 0 /\ mediaTries[q] = 0
            /\ ~isPlayingS /\ ~audioLoading
            /\ elem = NewAudio /\ ttsQueue = <<>>

\* both play buttons were pressed on a plant whose shloka is blank
C21_Witness ==
    /\ plantS.shloka # <<>> /\ trim(plantS.shloka) = <<>>
    /\ nPlay > 0 /\ nReq > 0
    /\ toast[1] = "notext" /\ "No text" \in toastS[1]

\* ------------------------------------------------------ claims on loadPlant
\* C22: a loadPlant call ends with loading false and in one of three states:
\* after a row, plant is that row and error is null; after PGRST116 or no
\* data, error is 'Plant not found', plant is left alone and nothing is
\* notified; after any other failure, error is the generic message and a
\* notification is shown
C22_LoadOutcomes ==
    [][\A n \in LoadCalls :
         (lpReq[n].pc = "await" /\ lpReq'[n].pc = "done") =>
            /\ lp'.loading = FALSE
            /\ lpReq'[n].answer = "row" =>
                    /\ lp'.plant = lpReq[n].id
                    /\ lp'.error = "null"
                    /\ ~lpReq'[n].toast
            /\ lpReq'[n].answer \in {"PGRST116", "nodata"} =>
                    /\ lp'.error = "Plant not found"
                    /\ lp'.plant = lp.plant
                    /\ ~lpReq'[n].toast
            /\ lpReq'[n].answer = "failed" =>
                    /\ lp'.error = "Failed to load plant details. Please try again."
                    /\ lpReq'[n].toast]_vars

\* C29: once every loadPlant call has its answer, the plant shown, the edit
\* form and the error are those of the call made last
C29_LastRequestWins ==
    (lp.nLoads > 0 /\ \A n \in LoadCalls : lpReq[n].pc # "await") =>
        LET last == lpReq[lp.nLoads]
        IN  /\ last.answer = "row" =>
                    /\ lp.plant = last.id
                    /\ lp.rev = "edit" => lp.form = last.id
                    /\ lp.error = "null"
            /\ last.answer \in {"PGRST116", "nodata"} => lp.error = "Plant not found"
            /\ last.answer = "failed" =>
                    lp.error = "Failed to load plant details. Please try again."


\* ------------------------------- rapid play requests, stop, loading indicator
\* the playAudio calls that have an utterance in the speech engine's queue
QueuedCalls == {ttsQueue[i][1] : i \in 1..Len(ttsQueue)}

\* C24: of two play requests made in rapid succession (the second during the
\* 100 ms or the 200 ms delay of the first), one utterance is spoken: the
\* engine never holds the utterances of two requests, that of the earlier one
\* was never handed to speak() or is canceled when the later one is handed
C24_OneUtterance == Cardinality(QueuedCalls) <= 1


\* C25: once stopAudio has marked the playback as stopped manually, no later
\* step (an error event, an abort event, a load timeout, the events of the
\* source emptied by stopAudio itself) starts a TTS fallback or raises the
\* "Audio Error" notification
C25_StoppedNoFallback ==
    [][isStoppedManuallyRef =>
          /\ fallbacks' = fallbacks
          /\ \A q \in Plays :
                 "Audio Error" \in toastS'[q] => "Audio Error" \in toastS[q]]_vars

\* the stop button was pressed on the playing stored audio, and the abort and
\* error events of the emptied source reached the listeners of the call
C25_Witness ==
    /\ userStopped /\ nPlay = 1 /\ isStoppedManuallyRef
    /\ "Playing" \in toastS[1]
    /\ {"abort", "error"} \subseteq signals[1]
    /\ elem.load = "nosrc" /\ elem.pending = <<>>
    /\ fallbacks[1] = 0 /\ ttsCalls[1] = 0


\* C28: a play request never leaves the loading indicator on: whenever
\* audioLoading is true it becomes false again, also when the stored audio
\* neither becomes playable nor fails before the 10 s load timeout
C28_LoadingEnds == audioLoading ~> ~audioLoading


\* ------------------------------------------------- claims on the Admin page
\* checkAuth has just learnt that there is no session, or could not tell
CheckFailed ==
    adm.ca = "getSession" /\ adm'.ca = "done" /\ adm'.check # "session"

\* an auth event with SIGNED_OUT or without a session has just been emitted
SignedOutEvent ==
    /\ adm'.nEv = adm.nEv + 1
    /\ adm'.ev.kind = "SIGNED_OUT" \/ ~adm'.ev.session

====
